---- MODULE Spec2Model ----
(***************************************************************************)
(* A model of the phantasma UDP master server: the attribute-stream        *)
(* parser (parser.rs), the server-info and filter decoders                  *)
(* (server_info.rs, filter.rs), the packet codec (client.rs) and the        *)
(* directory and request handler (master_server.rs).                        *)
(*                                                                          *)
(* Bytes are naturals 0..255 and byte strings are sequences of them.        *)
(* 32-bit unsigned values (the clock, the nonces, the TTLs) are records     *)
(* [hi, lo] of two 16-bit limbs, so that wrap-around at 2^32 is computed    *)
(* exactly with the integers the model checker has.                         *)
(***************************************************************************)
EXTENDS Integers, Sequences, FiniteSets, TLC

\* ------------------------------------------------------------------ bytes

BSLASH == 92
NEWLINE == 10
NUL == 0

DropN(s, n) == SubSeq(s, n + 1, Len(s))

TakeN(s, n) == SubSeq(s, 1, n)

\* Index of the first position of s whose byte is in set, or 0
\* (slice::iter().position).
Position(s, set) ==
    IF \A i \in 1..Len(s) : s[i] \notin set THEN 0
    ELSE CHOOSE i \in 1..Len(s) : s[i] \in set /\ \A j \in 1..(i - 1) : s[j] \notin set

\* ------------------------------------------------------------ u32 values

W16 == 256 * 256

U32(hi, lo) == [hi |-> hi, lo |-> lo]

\* n is a natural below 2^31.
U32FromNat(n) == U32(n \div W16, n % W16)

U32Zero == U32(0, 0)

\* u32::wrapping_sub
U32WrappingSub(a, b) ==
    LET lo == a.lo - b.lo
        borrow == IF lo < 0 THEN 1 ELSE 0
        hi == a.hi - b.hi - borrow
    IN  U32((hi + W16) % W16, (lo + W16) % W16)

\* u32::wrapping_add of a small natural n (n < 2^16)
U32WrappingAdd(a, n) ==
    LET lo == a.lo + n
        hi == a.hi + (lo \div W16)
    IN  U32(hi % W16, lo % W16)

U32Lt(a, b) == a.hi < b.hi \/ (a.hi = b.hi /\ a.lo < b.lo)

U32Le(a, b) == a = b \/ U32Lt(a, b)

\* u32::to_be_bytes in the place of to_le_bytes
to_le_bytes_be(x) == <<x.hi \div 256, x.hi % 256, x.lo \div 256, x.lo % 256>>

\* u32::to_le_bytes
to_le_bytes(x) == <<x.lo % 256, x.lo \div 256, x.hi % 256, x.hi \div 256>>

\* u32::from_le_bytes
from_le_bytes(b) == U32(b[3] + 256 * b[4], b[1] + 256 * b[2])

\* u16::to_be_bytes
to_be_bytes(p) == <<p \div 256, p % 256>>

\* --------------------------------------------------- parser.rs: Parser

Ok(v, cur) == [ok |-> TRUE, val |-> v, cur |-> cur]

Err(e, cur) == [ok |-> FALSE, err |-> e, cur |-> cur]

\* Parser::parse_bytes on the cursor cur.
parse_bytes_nul(cur) ==
    IF cur = <<>> THEN Err("End", cur)
    ELSE IF cur[1] = BSLASH THEN
        LET tail == DropN(cur, 1)
            p == Position(tail, {BSLASH, NEWLINE, 0})
            pos == IF p = 0 THEN Len(tail) ELSE p - 1
        IN  Ok(TakeN(tail, pos), DropN(tail, pos))
    ELSE IF cur[1] = NEWLINE THEN Err("End", cur)
    ELSE Err("InvalidMap", cur)

parse_bytes(cur) ==
    IF cur = <<>> THEN Err("End", cur)
    ELSE IF cur[1] = BSLASH THEN
        LET tail == DropN(cur, 1)
            p == Position(tail, {BSLASH, NEWLINE})
            pos == IF p = 0 THEN Len(tail) ELSE p - 1
        IN  Ok(TakeN(tail, pos), DropN(tail, pos))
    ELSE IF cur[1] = NEWLINE THEN Err("End", cur)
    ELSE Err("InvalidMap", cur)

IsCont(b) == b >= 128 /\ b <= 191

\* str::from_utf8(s).is_ok()
RECURSIVE IsUtf8(_)
IsUtf8(s) ==
    IF s = <<>> THEN TRUE
    ELSE LET b == s[1] n == Len(s) IN
        IF b < 128 THEN IsUtf8(DropN(s, 1))
        ELSE IF b >= 194 /\ b <= 223 THEN
            n >= 2 /\ IsCont(s[2]) /\ IsUtf8(DropN(s, 2))
        ELSE IF b >= 224 /\ b <= 239 THEN
            /\ n >= 3
            /\ IsCont(s[2]) /\ IsCont(s[3])
            /\ (b = 224 => s[2] >= 160)
            /\ (b = 237 => s[2] <= 159)
            /\ IsUtf8(DropN(s, 3))
        ELSE IF b >= 240 /\ b <= 244 THEN
            /\ n >= 4
            /\ IsCont(s[2]) /\ IsCont(s[3]) /\ IsCont(s[4])
            /\ (b = 240 => s[2] >= 144)
            /\ (b = 244 => s[2] <= 143)
            /\ IsUtf8(DropN(s, 4))
        ELSE FALSE

\* impl ParseValue for &str, given the result r of parse_bytes
StrOf(r) ==
    IF ~r.ok THEN r
    ELSE IF IsUtf8(r.val) THEN r
    ELSE Err("InvalidString", r.cur)

parse_str(cur) == StrOf(parse_bytes(cur))

\* impl ParseValue for bool, given the result r of parse_bytes
\* The bool parser that reads every value other than "0" as true.
BoolOf_lenient(r) ==
    IF ~r.ok THEN r
    ELSE IF r.val = <<48>> THEN Ok(FALSE, r.cur)
    ELSE Ok(TRUE, r.cur)

BoolOf(r) ==
    IF ~r.ok THEN r
    ELSE IF r.val = <<48>> THEN Ok(FALSE, r.cur)
    ELSE IF r.val = <<49>> THEN Ok(TRUE, r.cur)
    ELSE Err("InvalidBool", r.cur)

parse_bool(cur) == BoolOf(parse_bytes(cur))

IsDigit(b) == b >= 48 /\ b <= 57

Num(v) == [ok |-> TRUE, v |-> v]

NumErr(e) == [ok |-> FALSE, e |-> e]

\* The magnitude of a run of decimal digits as a u32; the failure is
\* "overflow" when it does not fit in 32 bits and "invalid" when a byte is
\* not a digit (both are a ParseIntError).
RECURSIVE DigitsFrom(_, _, _)
DigitsFrom(s, i, acc) ==
    IF i > Len(s) THEN Num(acc)
    ELSE IF ~IsDigit(s[i]) THEN NumErr("invalid")
    ELSE LET lo == acc.lo * 10 + (s[i] - 48)
             hi == acc.hi * 10 + (lo \div W16)
         IN  IF hi >= W16
             THEN (IF \A j \in i..Len(s) : IsDigit(s[j])
                   THEN NumErr("overflow") ELSE NumErr("invalid"))
             ELSE DigitsFrom(s, i + 1, U32(hi, lo % W16))

Digits(s) == DigitsFrom(s, 1, U32Zero)

\* The sign and digits of str::parse for an integer type.  Unsigned types
\* do not accept a leading minus; a lone sign and the empty text are errors.
SplitSign(s, signed) ==
    IF s = <<>> THEN [ok |-> FALSE]
    ELSE IF s[1] \in {43, 45} /\ Len(s) = 1 THEN [ok |-> FALSE]
    ELSE IF s[1] = 43 THEN [ok |-> TRUE, neg |-> FALSE, digits |-> DropN(s, 1)]
    ELSE IF s[1] = 45 /\ signed THEN [ok |-> TRUE, neg |-> TRUE, digits |-> DropN(s, 1)]
    ELSE [ok |-> TRUE, neg |-> FALSE, digits |-> s]

\* 2^(bits-1) as a u32, for bits in {8, 16, 32}
HalfRange(bits) ==
    IF bits = 8 THEN U32(0, 128)
    ELSE IF bits = 16 THEN U32(0, 32768)
    ELSE U32(32768, 0)

\* the largest value of the unsigned type, as a u32
MaxUnsigned(bits) ==
    IF bits = 8 THEN U32(0, 255)
    ELSE IF bits = 16 THEN U32(0, 65535)
    ELSE U32(65535, 65535)

\* The two's complement bit pattern (bits wide) of -mag.
Negate(mag, bits) ==
    IF mag = U32Zero THEN U32Zero
    ELSE U32WrappingAdd(U32WrappingSub(MaxUnsigned(bits), mag), 1)

\* The range check of an unsigned parse on the magnitude mag.
UnsignedMag(mag, bits) ==
    IF ~mag.ok THEN mag
    ELSE IF U32Lt(MaxUnsigned(bits), mag.v) THEN NumErr("overflow")
    ELSE mag

UnsignedOf(sp, bits) ==
    IF ~sp.ok THEN NumErr("invalid") ELSE UnsignedMag(Digits(sp.digits), bits)

\* s.parse::<uN>(): the value as a u32.
ParseUnsigned(s, bits) == UnsignedOf(SplitSign(s, FALSE), bits)

\* The range check of a signed parse, and the bit pattern of the value.
SignedMag(mag, neg, bits) ==
    IF ~mag.ok THEN mag
    ELSE IF neg THEN
        (IF U32Lt(HalfRange(bits), mag.v) THEN NumErr("overflow")
         ELSE Num(Negate(mag.v, bits)))
    ELSE IF U32Le(HalfRange(bits), mag.v) THEN NumErr("overflow")
    ELSE mag

SignedOf(sp, bits) ==
    IF ~sp.ok THEN NumErr("invalid") ELSE SignedMag(Digits(sp.digits), sp.neg, bits)

\* s.parse::<iN>(): the value's two's complement bit pattern (bits wide) as
\* a u32.
ParseSigned(s, bits) == SignedOf(SplitSign(s, TRUE), bits)

\* s.parse::<$t>().or_else(|_| s.parse::<$f>().map(|i| i as $t))
\*     .map_err(|_| Error::InvalidInteger)
FirstOk_first(first, second, cur) ==
    IF first.ok THEN Ok(first.v, cur) ELSE Err("InvalidInteger", cur)

FirstOk(first, second, cur) ==
    IF first.ok THEN Ok(first.v, cur)
    ELSE IF second.ok THEN Ok(second.v, cur)
    ELSE Err("InvalidInteger", cur)

UintOf(r, bits) ==
    IF ~r.ok THEN r
    ELSE FirstOk(ParseUnsigned(r.val, bits), ParseSigned(r.val, bits), r.cur)

\* impl_parse_int for the unsigned types u8, u16, u32: the unsigned parse
\* first, then the signed parse reinterpreted as unsigned.
parse_uint(cur, bits) == UintOf(parse_str(cur), bits)

IntOf(r, bits) ==
    IF ~r.ok THEN r
    ELSE FirstOk(ParseSigned(r.val, bits), ParseUnsigned(r.val, bits), r.cur)

\* impl_parse_int for the signed types: the signed parse first, then the
\* unsigned parse reinterpreted as signed (the same bit pattern).
parse_int(cur, bits) == IntOf(parse_str(cur), bits)

\* ------------------------------------------------ Option and key names

None == [some |-> FALSE]

Some(v) == [some |-> TRUE, v |-> v]

\* The attribute keys, as the byte strings the two decoders match on.
Key ==
    [protocol |-> <<112, 114, 111, 116, 111, 99, 111, 108>>,
     challenge |-> <<99, 104, 97, 108, 108, 101, 110, 103, 101>>,
     players |-> <<112, 108, 97, 121, 101, 114, 115>>,
     max |-> <<109, 97, 120>>,
     gamedir |-> <<103, 97, 109, 101, 100, 105, 114>>,
     map |-> <<109, 97, 112>>,
     type |-> <<116, 121, 112, 101>>,
     os |-> <<111, 115>>,
     version |-> <<118, 101, 114, 115, 105, 111, 110>>,
     region |-> <<114, 101, 103, 105, 111, 110>>,
     product |-> <<112, 114, 111, 100, 117, 99, 116>>,
     bots |-> <<98, 111, 116, 115>>,
     password |-> <<112, 97, 115, 115, 119, 111, 114, 100>>,
     secure |-> <<115, 101, 99, 117, 114, 101>>,
     lan |-> <<108, 97, 110>>,
     dedicated |-> <<100, 101, 100, 105, 99, 97, 116, 101, 100>>,
     empty |-> <<101, 109, 112, 116, 121>>,
     full |-> <<102, 117, 108, 108>>,
     linux |-> <<108, 105, 110, 117, 120>>,
     proxy |-> <<112, 114, 111, 120, 121>>,
     appid |-> <<97, 112, 112, 105, 100>>,
     napp |-> <<110, 97, 112, 112>>,
     nand |-> <<110, 97, 110, 100>>,
     nor |-> <<110, 111, 114>>,
     noplayers |-> <<110, 111, 112, 108, 97, 121, 101, 114, 115>>,
     white |-> <<119, 104, 105, 116, 101>>,
     gametype |-> <<103, 97, 109, 101, 116, 121, 112, 101>>,
     gamedata |-> <<103, 97, 109, 101, 100, 97, 116, 97>>,
     gamedataor |-> <<103, 97, 109, 101, 100, 97, 116, 97, 111, 114>>,
     name_match |-> <<110, 97, 109, 101, 95, 109, 97, 116, 99, 104>>,
     version_match |-> <<118, 101, 114, 115, 105, 111, 110, 95, 109, 97, 116, 99, 104>>,
     collapse_addr_hash |-> <<99, 111, 108, 108, 97, 112, 115, 101, 95, 97, 100, 100, 114, 95, 104, 97, 115, 104>>,
     gameaddr |-> <<103, 97, 109, 101, 97, 100, 100, 114>>]

\* ------------------------------------------------------- server_info.rs

REST_OF_WORLD == 255
EUROPE == 3
ASIA == 4

\* TryFrom<u8> for Region: the valid discriminants
RegionValues == 0..7 \cup {REST_OF_WORLD}

\* impl ParseValue for Os, given the result r of parse_bytes
OsOf(r) ==
    IF ~r.ok THEN r
    ELSE IF r.val = <<108>> THEN Ok("Linux", r.cur)
    ELSE IF r.val = <<119>> THEN Ok("Windows", r.cur)
    ELSE IF r.val = <<109>> THEN Ok("Mac", r.cur)
    ELSE Ok("Unknown", r.cur)

parse_os(cur) == OsOf(parse_bytes(cur))

\* impl ParseValue for ServerType, given the result r of parse_bytes
ServerTypeOf(r) ==
    IF ~r.ok THEN r
    ELSE IF r.val = <<100>> THEN Ok("Dedicated", r.cur)
    ELSE IF r.val = <<108>> THEN Ok("Local", r.cur)
    ELSE IF r.val = <<112>> THEN Ok("Proxy", r.cur)
    ELSE Ok("Unknown", r.cur)

parse_server_type(cur) == ServerTypeOf(parse_bytes(cur))

\* The region parser that takes every u8 for a region.
RegionOf_any(r) ==
    IF ~r.ok THEN r ELSE Ok(r.val.lo, r.cur)

\* impl ParseValue for Region: TryFrom<u8> on the result r of the u8 parse
RegionOf(r) ==
    IF ~r.ok THEN r
    ELSE IF r.val.lo \in RegionValues THEN Ok(r.val.lo, r.cur)
    ELSE Err("InvalidRegion", r.cur)

parse_region(cur) == RegionOf(parse_uint(cur, 8))

\* ServerInfo::default() with the region of a derived Default: the first
\* variant.
ServerInfoDefault_first ==
    [gamedir |-> <<>>, map |-> <<>>, version |-> <<>>, product |-> <<>>,
     server_type |-> "Unknown", os |-> "Unknown", region |-> 0,
     protocol |-> 0, players |-> 0, max |-> 0, flags |-> {}]

\* ServerInfo::default()
ServerInfoDefault ==
    [gamedir |-> <<>>, map |-> <<>>, version |-> <<>>, product |-> <<>>,
     server_type |-> "Unknown", os |-> "Unknown", region |-> REST_OF_WORLD,
     protocol |-> 0, players |-> 0, max |-> 0, flags |-> {}]

\* ServerFlags::set
SetFlag(flags, flag, value) ==
    IF value THEN flags \cup {flag} ELSE flags \ {flag}

\* The typed value parser the server-info decoder runs for the key name.
ServerInfoValue(name, cur) ==
    IF name \in {Key.protocol, Key.players, Key.max} THEN parse_uint(cur, 8)
    ELSE IF name = Key.challenge THEN parse_uint(cur, 32)
    ELSE IF name \in {Key.gamedir, Key.map, Key.version, Key.product} THEN parse_str(cur)
    ELSE IF name = Key.type THEN parse_server_type(cur)
    ELSE IF name = Key.os THEN parse_os(cur)
    ELSE IF name = Key.region THEN parse_region(cur)
    ELSE IF name \in {Key.bots, Key.password, Key.secure, Key.lan} THEN parse_bool(cur)
    ELSE parse_bytes(cur)

\* The assignment the server-info decoder makes for the key name.
ServerInfoAssign(info, name, v) ==
    IF name = Key.protocol THEN [info EXCEPT !.protocol = v.lo]
    ELSE IF name = Key.players THEN [info EXCEPT !.players = v.lo]
    ELSE IF name = Key.max THEN [info EXCEPT !.max = v.lo]
    ELSE IF name = Key.gamedir THEN [info EXCEPT !.gamedir = v]
    ELSE IF name = Key.map THEN [info EXCEPT !.map = v]
    ELSE IF name = Key.type THEN [info EXCEPT !.server_type = v]
    ELSE IF name = Key.os THEN [info EXCEPT !.os = v]
    ELSE IF name = Key.version THEN [info EXCEPT !.version = v]
    ELSE IF name = Key.region THEN [info EXCEPT !.region = v]
    ELSE IF name = Key.product THEN [info EXCEPT !.product = v]
    ELSE IF name = Key.bots THEN [info EXCEPT !.flags = SetFlag(@, "BOTS", v)]
    ELSE IF name = Key.password THEN [info EXCEPT !.flags = SetFlag(@, "PASSWORD", v)]
    ELSE IF name = Key.secure THEN [info EXCEPT !.flags = SetFlag(@, "SECURE", v)]
    ELSE IF name = Key.lan THEN [info EXCEPT !.flags = SetFlag(@, "LAN", v)]
    ELSE info

\* impl ParseValue for (Option<u32>, ServerInfo<T>): the decoding loop.
\* ServerInfo_parse reads a key, ServerInfo_key dispatches on it and
\* ServerInfo_value stores the value and loops.
RECURSIVE ServerInfo_parse(_, _, _)
RECURSIVE ServerInfo_key(_, _, _, _)
RECURSIVE ServerInfo_value(_, _, _, _)
ServerInfo_value(name, v, challenge, info) ==
    IF ~v.ok THEN Err(v.err, v.cur)
    ELSE ServerInfo_parse(
            v.cur,
            IF name = Key.challenge THEN Some(v.val) ELSE challenge,
            ServerInfoAssign(info, name, v.val))

ServerInfo_key(name, cur, challenge, info) ==
    IF ~name.ok THEN
        (IF name.err = "End"
         THEN Ok([challenge |-> challenge, info |-> info], cur)
         ELSE Err(name.err, cur))
    ELSE ServerInfo_value(name.val, ServerInfoValue(name.val, name.cur), challenge, info)

ServerInfo_parse(cur, challenge, info) ==
    ServerInfo_key(parse_bytes(cur), cur, challenge, info)

\* The tail with every leading \n removed.
RECURSIVE TailOf_all(_)
TailOf_all(r) ==
    IF ~r.ok THEN r
    ELSE IF r.cur # <<>> /\ r.cur[1] = NEWLINE
    THEN TailOf_all([r EXCEPT !.cur = DropN(r.cur, 1)])
    ELSE [ok |-> TRUE, challenge |-> r.val.challenge, info |-> r.val.info, tail |-> r.cur]

\* The tail ServerInfo::from_bytes returns: one leading \n is removed.
TailOf(r) ==
    IF ~r.ok THEN r
    ELSE [ok |-> TRUE, challenge |-> r.val.challenge, info |-> r.val.info,
          tail |-> IF r.cur # <<>> /\ r.cur[1] = NEWLINE
                   THEN DropN(r.cur, 1) ELSE r.cur]

\* ServerInfo::from_bytes with the challenge starting as Some(0) in the
\* place of None.
ServerInfo_from_bytes_zero(src) == TailOf(ServerInfo_parse(src, Some(U32Zero), ServerInfoDefault))

\* ServerInfo::from_bytes: (challenge, info, tail)
ServerInfo_from_bytes(src) == TailOf(ServerInfo_parse(src, None, ServerInfoDefault))

\* ------------------------------------------------------------ filter.rs

\* FilterFlags: a set of bit positions
DEDICATED == 0
PROXY == 1
SECURE == 2
LINUX == 3
PASSWORD == 4
NOT_EMPTY == 5
FULL == 6
NOPLAYERS == 7
WHITE == 8
LAN == 9
BOTS == 10
NOR == 11
NAND == 12

\* The derivation with FULL set for players > max in the place of >=.
FilterFlags_from_gt(info) ==
    {f \in {DEDICATED} : info.server_type = "Dedicated"}
    \cup {f \in {PROXY} : info.server_type = "Proxy"}
    \cup {f \in {SECURE} : "SECURE" \in info.flags}
    \cup {f \in {LINUX} : info.os = "Linux"}
    \cup {f \in {PASSWORD} : "PASSWORD" \in info.flags}
    \cup {f \in {NOT_EMPTY} : info.players > 0}
    \cup {f \in {FULL} : info.players > info.max}
    \cup {f \in {NOPLAYERS} : info.players = 0}
    \cup {f \in {LAN} : "LAN" \in info.flags}
    \cup {f \in {BOTS} : "BOTS" \in info.flags}

\* impl From<&ServerInfo<T>> for FilterFlags
FilterFlags_from(info) ==
    {f \in {DEDICATED} : info.server_type = "Dedicated"}
    \cup {f \in {PROXY} : info.server_type = "Proxy"}
    \cup {f \in {SECURE} : "SECURE" \in info.flags}
    \cup {f \in {LINUX} : info.os = "Linux"}
    \cup {f \in {PASSWORD} : "PASSWORD" \in info.flags}
    \cup {f \in {NOT_EMPTY} : info.players > 0}
    \cup {f \in {FULL} : info.players >= info.max}
    \cup {f \in {NOPLAYERS} : info.players = 0}
    \cup {f \in {LAN} : "LAN" \in info.flags}
    \cup {f \in {BOTS} : "BOTS" \in info.flags}

\* Filter::default()
FilterDefault ==
    [gamedir |-> None, map |-> None, gametype |-> None, gamedata |-> None,
     gamedataor |-> None, name_match |-> None, version_match |-> None,
     gameaddr |-> None, appid |-> None, napp |-> None,
     collapse_addr_hash |-> FALSE, flags |-> {}, flags_mask |-> {}]

\* insert_flag without the insertion into flags_mask.
insert_flag_nomask(filter, flag, value) ==
    [filter EXCEPT !.flags = SetFlag(@, flag, value)]

\* Filter::insert_flag
insert_flag(filter, flag, value) ==
    [filter EXCEPT !.flags = SetFlag(@, flag, value),
                   !.flags_mask = @ \cup {flag}]

\* Filter::matches without the comparison of the flags.
matches_noflags(filter, addr, server) ==
    IF filter.gamedir.some /\ server.gamedir # filter.gamedir.v THEN FALSE
    ELSE IF filter.map.some /\ server.map # filter.map.v THEN FALSE
    ELSE IF filter.version_match.some /\ server.version # filter.version_match.v THEN FALSE
    ELSE IF filter.gameaddr.some /\ addr.ip # filter.gameaddr.v.ip THEN FALSE
    ELSE IF filter.gameaddr.some /\ filter.gameaddr.v.port # 0
            /\ addr.port # filter.gameaddr.v.port THEN FALSE
    ELSE TRUE

\* Filter::matches rejecting every server once the filter names an appid or
\* a gametype.
matches_appid(filter, addr, server) ==
    IF (server.flags \cap filter.flags_mask) # filter.flags THEN FALSE
    ELSE IF filter.appid.some \/ filter.gametype.some THEN FALSE
    ELSE IF filter.gamedir.some /\ server.gamedir # filter.gamedir.v THEN FALSE
    ELSE IF filter.map.some /\ server.map # filter.map.v THEN FALSE
    ELSE IF filter.version_match.some /\ server.version # filter.version_match.v THEN FALSE
    ELSE IF filter.gameaddr.some /\ addr.ip # filter.gameaddr.v.ip THEN FALSE
    ELSE IF filter.gameaddr.some /\ filter.gameaddr.v.port # 0
            /\ addr.port # filter.gameaddr.v.port THEN FALSE
    ELSE TRUE

\* Filter::matches without the comparison of the ports.
matches_anyport(filter, addr, server) ==
    IF (server.flags \cap filter.flags_mask) # filter.flags THEN FALSE
    ELSE IF filter.gamedir.some /\ server.gamedir # filter.gamedir.v THEN FALSE
    ELSE IF filter.map.some /\ server.map # filter.map.v THEN FALSE
    ELSE IF filter.version_match.some /\ server.version # filter.version_match.v THEN FALSE
    ELSE IF filter.gameaddr.some /\ addr.ip # filter.gameaddr.v.ip THEN FALSE
    ELSE TRUE

\* Filter::matches
matches(filter, addr, server) ==
    IF (server.flags \cap filter.flags_mask) # filter.flags THEN FALSE
    ELSE IF filter.gamedir.some /\ server.gamedir # filter.gamedir.v THEN FALSE
    ELSE IF filter.map.some /\ server.map # filter.map.v THEN FALSE
    ELSE IF filter.version_match.some /\ server.version # filter.version_match.v THEN FALSE
    ELSE IF filter.gameaddr.some /\ addr.ip # filter.gameaddr.v.ip THEN FALSE
    ELSE IF filter.gameaddr.some /\ filter.gameaddr.v.port # 0
            /\ addr.port # filter.gameaddr.v.port THEN FALSE
    ELSE TRUE

\* The parts of s between the separator bytes sep.
RECURSIVE SplitOn(_, _)
SplitOn(s, sep) ==
    LET p == Position(s, {sep}) IN
    IF p = 0 THEN <<s>>
    ELSE <<TakeN(s, p - 1)>> \o SplitOn(DropN(s, p), sep)

\* One octet of a dotted quad: one to three digits, no leading zero, at
\* most 255.
IsOctet(t) ==
    /\ Len(t) \in 1..3
    /\ \A i \in 1..Len(t) : IsDigit(t[i])
    /\ (Len(t) > 1 => t[1] # 48)
    /\ Digits(t).v.lo <= 255

Ipv4Of(parts) ==
    IF Len(parts) = 4 /\ \A i \in 1..4 : IsOctet(parts[i])
    THEN Num([i \in 1..4 |-> Digits(parts[i]).v.lo])
    ELSE NumErr("invalid")

\* s.parse::<Ipv4Addr>()
ParseIpv4(s) == Ipv4Of(SplitOn(s, 46))

SocketAddrOf(ip, digits, port) ==
    IF ip.ok /\ digits # <<>> /\ port.ok /\ port.v.hi = 0
    THEN Num([ip |-> ip.v, port |-> port.v.lo])
    ELSE NumErr("invalid")

SocketAddrAt(s, p) ==
    IF p = 0 THEN NumErr("invalid")
    ELSE SocketAddrOf(ParseIpv4(TakeN(s, p - 1)), DropN(s, p), Digits(DropN(s, p)))

\* s.parse::<SocketAddrV4>(): ip ':' port, the port a u16
ParseSocketAddrV4(s) == SocketAddrAt(s, Position(s, {58}))

\* The flag a flag-toggle key of the filter names.
FilterFlagOf(name) ==
    IF name = Key.dedicated THEN DEDICATED
    ELSE IF name = Key.secure THEN SECURE
    ELSE IF name = Key.empty THEN NOT_EMPTY
    ELSE IF name = Key.full THEN FULL
    ELSE IF name = Key.linux THEN LINUX
    ELSE IF name = Key.password THEN PASSWORD
    ELSE IF name = Key.proxy THEN PROXY
    ELSE IF name = Key.nand THEN NAND
    ELSE IF name = Key.nor THEN NOR
    ELSE IF name = Key.noplayers THEN NOPLAYERS
    ELSE IF name = Key.white THEN WHITE
    ELSE IF name = Key.lan THEN LAN
    ELSE BOTS

FilterFlagKeys ==
    {Key.dedicated, Key.secure, Key.empty, Key.full, Key.linux, Key.password, Key.proxy,
     Key.nand, Key.nor, Key.noplayers, Key.white, Key.lan, Key.bots}

FilterStringKeys ==
    {Key.gamedir, Key.map, Key.gametype, Key.gamedata, Key.gamedataor, Key.name_match,
     Key.version_match, Key.gameaddr}

\* The value parser with no value read for an unknown key.
FilterValue_noskip(name, cur) ==
    IF name \in FilterFlagKeys \cup {Key.collapse_addr_hash} THEN parse_bool(cur)
    ELSE IF name \in FilterStringKeys THEN parse_str(cur)
    ELSE IF name \in {Key.appid, Key.napp} THEN parse_uint(cur, 32)
    ELSE Ok(<<>>, cur)

\* The typed value parser the filter decoder runs for the key name.
FilterValue(name, cur) ==
    IF name \in FilterFlagKeys \cup {Key.collapse_addr_hash} THEN parse_bool(cur)
    ELSE IF name \in FilterStringKeys THEN parse_str(cur)
    ELSE IF name \in {Key.appid, Key.napp} THEN parse_uint(cur, 32)
    ELSE parse_bytes(cur)

\* The gameaddr arm storing the unspecified address when neither parse
\* succeeds.
FirstAddr_unspecified(a, ip, old) ==
    IF a.ok THEN Some(a.v)
    ELSE IF ip.ok THEN Some([ip |-> ip.v, port |-> 0])
    ELSE Some([ip |-> <<0, 0, 0, 0>>, port |-> 0])

FirstAddr(a, ip, old) ==
    IF a.ok THEN Some(a.v)
    ELSE IF ip.ok THEN Some([ip |-> ip.v, port |-> 0])
    ELSE old

\* The gameaddr arm: ip:port first, then a bare ip with port 0, else unset.
GameAddrOf(old, s) == FirstAddr(ParseSocketAddrV4(s), ParseIpv4(s), old)

\* The assignment the filter decoder makes for the key name.
FilterAssign(filter, name, v) ==
    IF name \in FilterFlagKeys THEN insert_flag(filter, FilterFlagOf(name), v)
    ELSE IF name = Key.gamedir THEN [filter EXCEPT !.gamedir = Some(v)]
    ELSE IF name = Key.map THEN [filter EXCEPT !.map = Some(v)]
    ELSE IF name = Key.appid THEN [filter EXCEPT !.appid = Some(v)]
    ELSE IF name = Key.napp THEN [filter EXCEPT !.napp = Some(v)]
    ELSE IF name = Key.gametype THEN [filter EXCEPT !.gametype = Some(v)]
    ELSE IF name = Key.gamedata THEN [filter EXCEPT !.gamedata = Some(v)]
    ELSE IF name = Key.gamedataor THEN [filter EXCEPT !.gamedataor = Some(v)]
    ELSE IF name = Key.name_match THEN [filter EXCEPT !.name_match = Some(v)]
    ELSE IF name = Key.version_match THEN [filter EXCEPT !.version_match = Some(v)]
    ELSE IF name = Key.collapse_addr_hash THEN [filter EXCEPT !.collapse_addr_hash = v]
    ELSE IF name = Key.gameaddr THEN [filter EXCEPT !.gameaddr = GameAddrOf(@, v)]
    ELSE filter

\* impl ParseValue for Filter: the decoding loop.  Filter_parse reads a key,
\* Filter_key dispatches on it and Filter_value stores the value and loops.
RECURSIVE Filter_parse(_, _)
RECURSIVE Filter_key(_, _, _)
RECURSIVE Filter_value(_, _, _)
Filter_value(name, v, filter) ==
    IF ~v.ok THEN Err(v.err, v.cur)
    ELSE Filter_parse(v.cur, FilterAssign(filter, name, v.val))

Filter_key(name, cur, filter) ==
    IF ~name.ok THEN
        (IF name.err = "End" THEN Ok(filter, cur) ELSE Err(name.err, cur))
    ELSE Filter_value(name.val, FilterValue(name.val, name.cur), filter)

Filter_parse(cur, filter) == Filter_key(parse_bytes(cur), cur, filter)

\* Filter::from_bytes
Filter_from_bytes(src) == Filter_parse(src, FilterDefault)

\* ------------------------------------------------------------ server.rs

\* Server::new with the WHITE bit set.
Server_new_white(info) ==
    [version |-> info.version, gamedir |-> info.gamedir, map |-> info.map,
     flags |-> FilterFlags_from(info) \cup {WHITE}, region |-> info.region]

\* Server::new
Server_new(info) ==
    [version |-> info.version, gamedir |-> info.gamedir, map |-> info.map,
     flags |-> FilterFlags_from(info), region |-> info.region]

\* ------------------------------------------------------------ client.rs

\* decode_cstr: (tail, string) split at the first NUL
decode_cstr(data) ==
    LET p == Position(data, {NUL}) IN
    IF p = 0 THEN [ok |-> FALSE]
    ELSE [ok |-> TRUE, tail |-> DropN(data, p), str |-> TakeN(data, p - 1)]

\* "\xff\xff\xff\xffSource Engine Query"
SourceEngineQuery ==
    <<255, 255, 255, 255, 83, 111, 117, 114, 99, 101, 32, 69, 110, 103, 105,
      110, 101, 32, 81, 117, 101, 114, 121>>

InvalidPacket == [tag |-> "InvalidPacket"]

\* The QueryServers arm without the test that nothing follows the second
\* string.
QueryOf_trailing(region, a, b) ==
    IF ~a.ok \/ ~b.ok THEN InvalidPacket
    ELSE [tag |-> "QueryServers", region |-> region, filter |-> b.str]

\* The QueryServers arm, given the first string a and the second b.
QueryOf(region, a, b) ==
    IF ~a.ok \/ ~b.ok THEN InvalidPacket
    ELSE IF b.tail # <<>> THEN InvalidPacket
    ELSE [tag |-> "QueryServers", region |-> region, filter |-> b.str]

SecondCstr(a) == IF a.ok THEN decode_cstr(a.tail) ELSE a

QueryAfter(region, a) == QueryOf(region, a, SecondCstr(a))

\* The ServerAdd arm, given the result r of ServerInfo::from_bytes.
ServerAddOf(r) ==
    IF ~r.ok THEN InvalidPacket
    ELSE [tag |-> "ServerAdd", challenge |-> r.challenge, info |-> r.info]

\* Packet::decode: the arms are tried in the order of the match.
Packet_decode(s) ==
    IF Len(s) >= 2 /\ s[1] = 49 THEN
        (IF s[2] \notin RegionValues THEN InvalidPacket
         ELSE QueryAfter(s[2], decode_cstr(DropN(s, 2))))
    ELSE IF Len(s) = 6 /\ s[1] = 113 /\ s[2] = 255 THEN
        [tag |-> "Challenge", server_challenge |-> Some(from_le_bytes(DropN(s, 2)))]
    ELSE IF Len(s) >= 2 /\ s[1] = 48 /\ s[2] = NEWLINE THEN
        ServerAddOf(ServerInfo_from_bytes(DropN(s, 2)))
    ELSE IF s = <<98, NEWLINE>> THEN [tag |-> "ServerRemove"]
    ELSE IF s = <<113>> THEN [tag |-> "Challenge", server_challenge |-> None]
    ELSE IF Len(s) = 25 /\ TakeN(s, 23) = SourceEngineQuery THEN [tag |-> "ServerInfo"]
    ELSE InvalidPacket

\* ----------------------------------------------------- master_server.rs

MAX_PACKET_SIZE == 512
SERVER_CLEANUP_MAX == 100
CHALLENGE_CLEANUP_MAX == 100

\* "\xff\xff\xff\xffs\n"
CHALLENGE_RESPONSE_HEADER == <<255, 255, 255, 255, 115, 10>>

\* "\xff\xff\xff\xfff\n"
SERVER_LIST_HEADER == <<255, 255, 255, 255, 102, 10>>

\* Entry::new; an address without an entry maps to None
Entry(time, value) == [some |-> TRUE, time |-> time, value |-> value]

\* Entry::is_valid without the comparison: no entry ever expires.
is_valid_always(entry, t, duration) == TRUE

\* Entry::is_valid.  The subtraction is the one of a release build, which
\* wraps; now < time happens only after the clock has wrapped.
is_valid(entry, t, duration) == U32Lt(U32WrappingSub(t, entry.time), duration)

\* Entry<Server>::matches without the comparison of the region.
Entry_matches_any(entry, addr, region, filter) == matches(filter, addr, entry.value)

\* Entry<Server>::matches
Entry_matches(entry, addr, region, filter) ==
    entry.value.region = region /\ matches(filter, addr, entry.value)

\* add_challenge with entry().or_insert(): a pending challenge is kept.
add_challenge_keep(map, addr, t, x) ==
    IF map[addr].some THEN map ELSE [map EXCEPT ![addr] = Entry(t, x)]

\* HashMap::insert
add_challenge(map, addr, t, x) == [map EXCEPT ![addr] = Entry(t, x)]

\* The accepted challenge is looked up but left in the map.
remove_challenge_kept(map, addr) == map

\* The accepted challenge is removed under every address that holds its nonce.
remove_challenge_nonce(map, addr) ==
    [a \in DOMAIN map |-> IF map[a].some /\ map[a].value = map[addr].value THEN None ELSE map[a]]

\* HashMap::remove
remove_challenge(map, addr) == [map EXCEPT ![addr] = None]

\* add_server with entry().or_insert(): a registered peer keeps its record.
add_server_keep(map, addr, t, server) ==
    IF map[addr].some THEN map ELSE [map EXCEPT ![addr] = Entry(t, server)]

\* MasterServer::add_server
add_server(map, addr, t, server) == [map EXCEPT ![addr] = Entry(t, server)]

\* HashMap::retain with the predicate negated: the expired entries stay.
retain_invalid(map, t, duration) ==
    [a \in DOMAIN map |->
        IF map[a].some /\ ~is_valid(map[a], t, duration) THEN map[a] ELSE None]

\* A sweep that retains every entry.
retain_all(map, t, duration) == map

\* HashMap::retain(|_, v| v.is_valid(now, duration))
retain_valid(map, t, duration) ==
    [a \in DOMAIN map |->
        IF map[a].some /\ is_valid(map[a], t, duration) THEN map[a] ELSE None]

\* remove_outdated_challenges with <= in the place of <: one more call is
\* skipped.
remove_outdated_challenges_le(map, count, t, duration) ==
    IF count <= CHALLENGE_CLEANUP_MAX
    THEN [map |-> map, count |-> count + 1]
    ELSE [map |-> retain_valid(map, t, duration), count |-> 0]

\* MasterServer::remove_outdated_challenges: the map and the skip counter
\* afterwards; t is the clock reading of the sweep.
remove_outdated_challenges(map, count, t, duration) ==
    IF count < CHALLENGE_CLEANUP_MAX
    THEN [map |-> map, count |-> count + 1]
    ELSE [map |-> retain_valid(map, t, duration), count |-> 0]

\* MasterServer::remove_outdated_servers
remove_outdated_servers(map, count, t, duration) ==
    IF count < SERVER_CLEANUP_MAX
    THEN [map |-> map, count |-> count + 1]
    ELSE [map |-> retain_valid(map, t, duration), count |-> 0]

\* MasterServer::send_challenge_response: the bytes written to the buffer
\* The response with the echoed client challenge written first.
challenge_response_echo(challenge, server_challenge) ==
    CHALLENGE_RESPONSE_HEADER
        \o (IF server_challenge.some THEN to_le_bytes(server_challenge.v) ELSE <<>>)
        \o to_le_bytes(challenge)

challenge_response(challenge, server_challenge) ==
    CHALLENGE_RESPONSE_HEADER \o to_le_bytes(challenge)
        \o (IF server_challenge.some THEN to_le_bytes(server_challenge.v) ELSE <<>>)

\* The inner loop with the test of the position made before the write: the
\* tuple that does not fit is taken from the iterator and not written.
RECURSIVE FillList_drop(_, _)
FillList_drop(buf, iter) ==
    IF iter = <<>> THEN [buf |-> buf, iter |-> iter, done |-> TRUE]
    ELSE IF Len(buf) + 6 > MAX_PACKET_SIZE - 12
    THEN [buf |-> buf, iter |-> Tail(iter), done |-> FALSE]
    ELSE FillList_drop(buf \o iter[1].ip \o to_be_bytes(iter[1].port), Tail(iter))

\* The inner loop with the test made before the write: a tuple is written
\* only if the position after it does not exceed MAX_PACKET_SIZE - 12.
RECURSIVE FillList_before(_, _)
FillList_before(buf, iter) ==
    IF iter = <<>> THEN [buf |-> buf, iter |-> iter, done |-> TRUE]
    ELSE LET next == buf \o iter[1].ip \o to_be_bytes(iter[1].port) IN
        IF Len(next) > MAX_PACKET_SIZE - 12
        THEN [buf |-> buf, iter |-> iter, done |-> FALSE]
        ELSE FillList_before(next, Tail(iter))

\* The inner loop that is done as soon as the last address is written.
RECURSIVE FillList_peek(_, _)
FillList_peek(buf, iter) ==
    IF iter = <<>> THEN [buf |-> buf, iter |-> iter, done |-> TRUE]
    ELSE LET next == buf \o iter[1].ip \o to_be_bytes(iter[1].port) IN
        IF Len(next) > MAX_PACKET_SIZE - 12
        THEN [buf |-> next, iter |-> Tail(iter), done |-> Tail(iter) = <<>>]
        ELSE FillList_peek(next, Tail(iter))

\* The inner loop of send_server_list: tuples are written after buf until
\* the iterator ends (done) or the position exceeds MAX_PACKET_SIZE - 12.
RECURSIVE FillList(_, _)
FillList(buf, iter) ==
    IF iter = <<>> THEN [buf |-> buf, iter |-> iter, done |-> TRUE]
    ELSE LET next == buf \o iter[1].ip \o to_be_bytes(iter[1].port) IN
        IF Len(next) > MAX_PACKET_SIZE - 12
        THEN [buf |-> next, iter |-> Tail(iter), done |-> FALSE]
        ELSE FillList(next, Tail(iter))

\* The outer loop of send_server_list: the datagrams handed to send_to, in
\* order, and whether every write to the 512-byte buffer succeeded.  A
\* write past the end of the buffer is an io::Error that ends the call
\* before the send.  (A tuple is written at position 500 at most, so only
\* the write of the terminator is checked.)
RECURSIVE ListDatagrams(_)
RECURSIVE ListAfter(_)
ListThen(dgram, rest) == [dgrams |-> <<dgram>> \o rest.dgrams, ok |-> rest.ok]

\* The outer loop sending nothing when a pass wrote no tuple.
ListAfter_noempty(f) ==
    IF Len(f.buf) + 6 > MAX_PACKET_SIZE THEN [dgrams |-> <<>>, ok |-> FALSE]
    ELSE IF f.done
    THEN [dgrams |-> IF f.buf = SERVER_LIST_HEADER THEN <<>>
                     ELSE <<f.buf \o <<0, 0, 0, 0, 0, 0>> >>,
          ok |-> TRUE]
    ELSE ListThen(f.buf \o <<0, 0, 0, 0, 0, 0>>, ListDatagrams(f.iter))

ListAfter(f) ==
    IF Len(f.buf) + 6 > MAX_PACKET_SIZE THEN [dgrams |-> <<>>, ok |-> FALSE]
    ELSE IF f.done THEN [dgrams |-> <<f.buf \o <<0, 0, 0, 0, 0, 0>> >>, ok |-> TRUE]
    ELSE ListThen(f.buf \o <<0, 0, 0, 0, 0, 0>>, ListDatagrams(f.iter))

ListDatagrams(iter) == ListAfter(FillList(SERVER_LIST_HEADER, iter))

Datagram(to, data) == [to |-> to, data |-> data]

\* The datagrams of all that are sent when send_to number fail fails
\* (0: none fails), and what send_server_list returns.
SendUntil(to, all, fail) ==
    IF fail = 0 \/ fail > Len(all.dgrams)
    THEN [sent |-> [i \in 1..Len(all.dgrams) |-> Datagram(to, all.dgrams[i])],
          result |-> IF all.ok THEN "Ok" ELSE "Io"]
    ELSE [sent |-> [i \in 1..(fail - 1) |-> Datagram(to, all.dgrams[i])], result |-> "Io"]

\* MasterServer::send_server_list.  iter is the sequence the iterator
\* yields.
send_server_list(to, iter, fail) == SendUntil(to, ListDatagrams(iter), fail)

\* ----------------------------------------------------------------- bounds

\* the largest clock reading (seconds since start) the model follows
MaxTime == 2
\* the most seconds the clock advances between two readings in one handler
MaxSkew == 1
\* the most skipped eviction calls followed from a counter of 0
MaxSkips == 1
\* timeout.challenge and timeout.server of the configuration
ChallengeTTL == 1
ServerTTL == 1
\* the most matching servers the list encoder is applied to
MaxServers == 170
\* the most seconds before and after the wrap of the clock that are followed
MaxWrap == 2
\* the most consecutive invocations of an eviction routine that are followed
MaxCalls == 203
\* the most flag attributes of a filter stream that is decoded on its own
MaxAttrs == 2
\* the longest cursor handed to parse_bytes and the longest enumerated text
\* handed to the integer parsers
MaxText == 4

timeout == [challenge |-> U32FromNat(ChallengeTTL), server |-> U32FromNat(ServerTTL)]

\* ----------------------------------------------------------------- inputs

P1 == [ip |-> <<10, 0, 0, 1>>, port |-> 27015]
P2 == [ip |-> <<192, 168, 1, 100>>, port |-> 258]

\* the IPv4 peers that send datagrams
Peers == {P1, P2}

\* the values the PRNG draws: 0x01020304 and 0xffffffff
Nonce1 == U32(258, 772)
Nonce2 == U32(65535, 65535)
Nonces == {Nonce1, Nonce2}

\* the decimal text a game server echoes a nonce with: "16909060", "-1"
EchoText(x) == IF x = Nonce1 THEN <<49, 54, 57, 48, 57, 48, 54, 48>> ELSE <<45, 49>>

\* "\gamedir\valve\map\cf\region\3"
InfoEurope ==
    <<92, 103, 97, 109, 101, 100, 105, 114, 92, 118, 97, 108, 118, 101, 92,
      109, 97, 112, 92, 99, 102, 92, 114, 101, 103, 105, 111, 110, 92, 51>>

\* "\gamedir\valve\map\dm\region\4\players\8\max\8"
InfoAsia ==
    <<92, 103, 97, 109, 101, 100, 105, 114, 92, 118, 97, 108, 118, 101, 92,
      109, 97, 112, 92, 100, 109, 92, 114, 101, 103, 105, 111, 110, 92, 52,
      92, 112, 108, 97, 121, 101, 114, 115, 92, 56, 92, 109, 97, 120, 92, 56>>

\* "\gamedir\valve\map\cf"
InfoNoRegion ==
    <<92, 103, 97, 109, 101, 100, 105, 114, 92, 118, 97, 108, 118, 101, 92,
      109, 97, 112, 92, 99, 102>>

\* "\gamedir\valve\map\cf\region\-1\n"
InfoRegionMinus1 ==
    <<92, 103, 97, 109, 101, 100, 105, 114, 92, 118, 97, 108, 118, 101, 92,
      109, 97, 112, 92, 99, 102, 92, 114, 101, 103, 105, 111, 110, 92, 45,
      49, 10>>

\* "0\n\challenge\<echo><info>"
ServerAddDatagram(x, info) ==
    <<48, 10, 92, 99, 104, 97, 108, 108, 101, 110, 103, 101, 92>>
        \o EchoText(x) \o info

\* "0\n\gamedir\valve\map\cf": a registration without a challenge key
ServerAddNoChallenge == <<48, 10>> \o InfoNoRegion

\* "0\n\challenge\16909060\region\8": a registration with an invalid region
ServerAddBadRegion == ServerAddDatagram(Nonce1, <<92, 114, 101, 103, 105, 111, 110, 92, 56>>)

\* "1" region first "\0" filter "\0"
QueryDatagram(region, first, filter) == <<49, region>> \o first \o <<0>> \o filter \o <<0>>

\* "\map\cf"
FilterMapCf == <<92, 109, 97, 112, 92, 99, 102>>

\* "\full\2": not a bool
FilterBadBool == <<92, 102, 117, 108, 108, 92, 50>>

\* "\white\1"
FilterWhite == <<92, 119, 104, 105, 116, 101, 92, 49>>

\* filters the decoder rejects: "\full\2", "\appid\x" (not an integer),
\* "\map\" and the byte 0xff (not UTF-8), "\map" (no value), "map" (no
\* leading backslash)
BadFilters ==
    {FilterBadBool, <<92, 97, 112, 112, 105, 100, 92, 120>>, <<92, 109, 97, 112, 92, 255>>,
     <<92, 109, 97, 112>>, <<109, 97, 112>>}

QueryDatagrams ==
    {QueryDatagram(EUROPE, <<>>, <<>>), QueryDatagram(REST_OF_WORLD, <<>>, <<>>),
     QueryDatagram(EUROPE, <<80>>, FilterMapCf), QueryDatagram(ASIA, <<>>, FilterMapCf),
     QueryDatagram(EUROPE, <<>>, FilterWhite)}
        \cup {QueryDatagram(EUROPE, <<>>, f) : f \in BadFilters}

\* "q" and "q\xff\x01\x02\x03\x04"
ChallengeDatagrams == {<<113>>, <<113, 255, 1, 2, 3, 4>>}

\* "b\n"
ServerRemoveDatagram == <<98, 10>>

\* "\xff\xff\xff\xffSource Engine Query\0\0"
ServerInfoDatagram == SourceEngineQuery \o <<0, 0>>

\* A datagram of 513 bytes: a query for region 0xff whose first string is
\* 509 times "a".
Oversize == QueryDatagram(REST_OF_WORLD, [i \in 1..509 |-> 97], <<>>)

\* What recv_from stores in buf where the socket layer truncates a datagram
\* that does not fit: its first MAX_PACKET_SIZE bytes.
Truncated == TakeN(Oversize, MAX_PACKET_SIZE)

\* datagrams no arm of the codec accepts: the empty one, "q\xff\x01", a
\* query with region byte 8, a registration with an invalid region, the
\* truncated query
InvalidDatagrams ==
    {<<>>, <<113, 255, 1>>, QueryDatagram(8, <<>>, <<>>), ServerAddBadRegion, Truncated}

ServerAddDatagrams ==
    {ServerAddDatagram(Nonce1, InfoEurope), ServerAddDatagram(Nonce2, InfoEurope),
     ServerAddDatagram(Nonce1, InfoAsia), ServerAddDatagram(Nonce2, InfoNoRegion),
     ServerAddDatagram(Nonce1, InfoRegionMinus1), ServerAddNoChallenge}

\* the datagrams a peer may send
Datagrams ==
    ChallengeDatagrams \cup ServerAddDatagrams \cup QueryDatagrams
        \cup {ServerRemoveDatagram, ServerInfoDatagram} \cup InvalidDatagrams

\* Packet::decode and Filter::from_bytes of the datagrams above, evaluated
\* once.
DecodeCache == [s \in Datagrams |-> Packet_decode(s)]

decode(s) == DecodeCache[s]

FilterCache ==
    [f \in {DecodeCache[s].filter : s \in {d \in Datagrams : DecodeCache[d].tag = "QueryServers"}}
        |-> Filter_from_bytes(f)]

filter_from_bytes(f) == FilterCache[f]

\* ------------------------------------------------------------------ state

VARIABLES
    challenges,          \* MasterServer::challenges: address -> Entry<u32> or None
    servers,             \* MasterServer::servers: address -> Entry<Server> or None
    cleanup_challenges,  \* MasterServer::cleanup_challenges
    cleanup_servers,     \* MasterServer::cleanup_servers
    now,                 \* what MasterServer::now() reads: seconds since start, u32
    running,             \* the run loop has not returned
    pkt,                 \* the datagram the last iteration of the run loop received
    sent,                \* the datagrams that iteration passed to send_to with success
    result,              \* what handle_packet returned in that iteration
    call                 \* the list encoder applied on its own: input and output

vars ==
    <<challenges, servers, cleanup_challenges, cleanup_servers, now, running,
      pkt, sent, result, call>>

NoPacket == [kind |-> "none"]

Packet(from, s) == [kind |-> "v4", from |-> from, data |-> s]

PacketV6(s) == [kind |-> "v6", data |-> s]

NoCall == [n |-> 0, fail |-> 0, out |-> None]

\* MasterServer::new
Init ==
    /\ challenges = [a \in Peers |-> None]
    /\ servers = [a \in Peers |-> None]
    /\ cleanup_challenges = 0
    /\ cleanup_servers = 0
    /\ now = U32Zero
    /\ running = TRUE
    /\ pkt = NoPacket
    /\ sent = <<>>
    /\ result = "None"
    /\ call = NoCall

\* A clock reading d seconds after t that the model still follows.
Later(t, d) == U32WrappingAdd(t, d)

InTime(t) == U32Le(t, U32FromNat(MaxTime))

\* The model follows a skip counter from 0 up to MaxSkips and from one below
\* its threshold on.
SkipsInBounds(count, max) == count < MaxSkips \/ count >= max - 1

\* The sequences that enumerate the set S: the orders a HashMap iterator may
\* yield its keys in.
Orderings(S) ==
    {q \in [1..Cardinality(S) -> S] : \A i, j \in 1..Cardinality(S) : q[i] = q[j] => i = j}

\* The run loop is blocked in recv_from.
Receiving == running /\ pkt = NoPacket

\* run: the iteration that handled pkt ends and the loop calls recv_from
\* again.
Continue ==
    /\ running
    /\ pkt # NoPacket
    /\ pkt' = NoPacket
    /\ sent' = <<>>
    /\ result' = "None"
    /\ UNCHANGED <<challenges, servers, cleanup_challenges, cleanup_servers, now, running, call>>

\* The seconds counter advances between two datagrams.
Tick ==
    /\ Receiving
    /\ InTime(Later(now, 1))
    /\ now' = Later(now, 1)
    /\ UNCHANGED <<challenges, servers, cleanup_challenges, cleanup_servers, running,
                   pkt, sent, result, call>>

\* run: recv_from fails and the ? operator returns the error from run.
RecvError ==
    /\ Receiving
    /\ running' = FALSE
    /\ UNCHANGED <<challenges, servers, cleanup_challenges, cleanup_servers, now,
                   pkt, sent, result, call>>

\* run: a datagram s longer than buf arrives where the socket layer reports
\* it as an error (WSAEMSGSIZE) in the place of truncating it: recv_from
\* returns Err and the ? operator returns it from run.
RecvTooLong(from, s) ==
    /\ Receiving
    /\ Len(s) > MAX_PACKET_SIZE
    /\ pkt' = [kind |-> "toolong", from |-> from, data |-> s]
    /\ sent' = <<>>
    /\ result' = "None"
    /\ running' = FALSE
    /\ UNCHANGED <<challenges, servers, cleanup_challenges, cleanup_servers, now, call>>

\* run: a datagram from an IPv6 peer is logged and skipped.
RecvV6(s) ==
    /\ Receiving
    /\ pkt' = PacketV6(s)
    /\ sent' = <<>>
    /\ result' = "None"
    /\ UNCHANGED <<challenges, servers, cleanup_challenges, cleanup_servers, now, running, call>>

\* handle_packet: Packet::decode fails.
HandleInvalid_reports(from, s) ==
    /\ Receiving
    /\ decode(s).tag = "InvalidPacket"
    /\ pkt' = Packet(from, s)
    /\ sent' = <<>>
    /\ result' = "InvalidPacket"
    /\ UNCHANGED <<challenges, servers, cleanup_challenges, cleanup_servers, now, running, call>>

HandleInvalid(from, s) ==
    /\ Receiving
    /\ decode(s).tag = "InvalidPacket"
    /\ pkt' = Packet(from, s)
    /\ sent' = <<>>
    /\ result' = "Ok"
    /\ UNCHANGED <<challenges, servers, cleanup_challenges, cleanup_servers, now, running, call>>

\* handle_packet, the Challenge arm.  x is the nonce the PRNG draws, send_ok
\* whether send_to succeeds, d the seconds between the clock reading of
\* add_challenge and that of the sweep.
HandleChallenge(from, s) ==
    /\ Receiving
    /\ decode(s).tag = "Challenge"
    /\ SkipsInBounds(cleanup_challenges, CHALLENGE_CLEANUP_MAX)
    /\ \E x \in Nonces, send_ok \in BOOLEAN, d \in 0..MaxSkew :
        LET added == add_challenge(challenges, from, now, x)
            swept == remove_outdated_challenges(added, cleanup_challenges,
                                                Later(now, d), timeout.challenge)
        IN  /\ d > 0 => send_ok /\ cleanup_challenges >= CHALLENGE_CLEANUP_MAX
                                /\ InTime(Later(now, d))
            /\ pkt' = Packet(from, s)
            /\ IF send_ok
               THEN /\ sent' = <<Datagram(from, challenge_response(x, decode(s).server_challenge))>>
                    /\ challenges' = swept.map
                    /\ cleanup_challenges' = swept.count
                    /\ now' = Later(now, d)
                    /\ result' = "Ok"
               ELSE /\ sent' = <<>>
                    /\ challenges' = added
                    /\ UNCHANGED <<cleanup_challenges, now>>
                    /\ result' = "Io"
            /\ UNCHANGED <<servers, cleanup_servers, running, call>>

\* The ServerAdd arm forgetting the pending challenge on a wrong echo.
HandleServerAdd_consumes(from, s) ==
    /\ Receiving
    /\ decode(s).tag = "ServerAdd"
    /\ pkt' = Packet(from, s)
    /\ sent' = <<>>
    /\ UNCHANGED <<cleanup_challenges, running, call>>
    /\ IF ~decode(s).challenge.some
       THEN /\ result' = "MissingChallenge"
            /\ UNCHANGED <<challenges, servers, cleanup_servers, now>>
       ELSE /\ result' = "Ok"
            /\ IF \/ ~challenges[from].some
                  \/ ~is_valid(challenges[from], now, timeout.challenge)
               THEN UNCHANGED <<challenges, servers, cleanup_servers, now>>
               ELSE IF decode(s).challenge.v # challenges[from].value
               THEN /\ challenges' = remove_challenge(challenges, from)
                    /\ UNCHANGED <<servers, cleanup_servers, now>>
               ELSE /\ SkipsInBounds(cleanup_servers, SERVER_CLEANUP_MAX)
                    /\ \E d1 \in 0..MaxSkew, d2 \in 0..MaxSkew :
                        LET t1 == Later(now, d1)
                            t2 == Later(t1, d2)
                            added == add_server(servers, from, t1, Server_new(decode(s).info))
                            swept == remove_outdated_servers(added, cleanup_servers,
                                                             t2, timeout.server)
                        IN  /\ InTime(t2)
                            /\ d2 > 0 => cleanup_servers >= SERVER_CLEANUP_MAX
                            /\ challenges' = remove_challenge(challenges, from)
                            /\ servers' = swept.map
                            /\ cleanup_servers' = swept.count
                            /\ now' = t2

\* The ServerAdd arm calling remove_outdated_servers before its checks.
HandleServerAdd_evicts(from, s) ==
    /\ Receiving
    /\ decode(s).tag = "ServerAdd"
    /\ pkt' = Packet(from, s)
    /\ sent' = <<>>
    /\ UNCHANGED <<cleanup_challenges, running, call>>
    /\ IF ~decode(s).challenge.some
       THEN /\ result' = "MissingChallenge"
            /\ UNCHANGED <<challenges, servers, cleanup_servers, now>>
       ELSE /\ result' = "Ok"
            /\ IF \/ ~challenges[from].some
                  \/ ~is_valid(challenges[from], now, timeout.challenge)
                  \/ decode(s).challenge.v # challenges[from].value
               THEN LET swept == remove_outdated_servers(servers, cleanup_servers,
                                                         now, timeout.server)
                    IN  /\ servers' = swept.map
                        /\ cleanup_servers' = swept.count
                        /\ UNCHANGED <<challenges, now>>
               ELSE /\ SkipsInBounds(cleanup_servers, SERVER_CLEANUP_MAX)
                    /\ \E d1 \in 0..MaxSkew, d2 \in 0..MaxSkew :
                        LET t1 == Later(now, d1)
                            t2 == Later(t1, d2)
                            added == add_server(servers, from, t1, Server_new(decode(s).info))
                            swept == remove_outdated_servers(added, cleanup_servers,
                                                             t2, timeout.server)
                        IN  /\ InTime(t2)
                            /\ d2 > 0 => cleanup_servers >= SERVER_CLEANUP_MAX
                            /\ challenges' = remove_challenge(challenges, from)
                            /\ servers' = swept.map
                            /\ cleanup_servers' = swept.count
                            /\ now' = t2

\* handle_packet, the ServerAdd arm.  d1 is the seconds between the clock
\* reading of the validity check and that of add_server, d2 those between
\* add_server and the sweep.
HandleServerAdd(from, s) ==
    /\ Receiving
    /\ decode(s).tag = "ServerAdd"
    /\ pkt' = Packet(from, s)
    /\ sent' = <<>>
    /\ UNCHANGED <<cleanup_challenges, running, call>>
    /\ IF ~decode(s).challenge.some
       THEN /\ result' = "MissingChallenge"
            /\ UNCHANGED <<challenges, servers, cleanup_servers, now>>
       ELSE /\ result' = "Ok"
            /\ IF \/ ~challenges[from].some
                  \/ ~is_valid(challenges[from], now, timeout.challenge)
                  \/ decode(s).challenge.v # challenges[from].value
               THEN UNCHANGED <<challenges, servers, cleanup_servers, now>>
               ELSE /\ SkipsInBounds(cleanup_servers, SERVER_CLEANUP_MAX)
                    /\ \E d1 \in 0..MaxSkew, d2 \in 0..MaxSkew :
                        LET t1 == Later(now, d1)
                            t2 == Later(t1, d2)
                            added == add_server(servers, from, t1, Server_new(decode(s).info))
                            swept == remove_outdated_servers(added, cleanup_servers,
                                                             t2, timeout.server)
                        IN  /\ InTime(t2)
                            /\ d2 > 0 => cleanup_servers >= SERVER_CLEANUP_MAX
                            /\ challenges' = remove_challenge(challenges, from)
                            /\ servers' = swept.map
                            /\ cleanup_servers' = swept.count
                            /\ now' = t2

\* The ServerRemove arm removing the server entry of the sender.
HandleServerRemove_removes(from, s) ==
    /\ Receiving
    /\ decode(s).tag = "ServerRemove"
    /\ pkt' = Packet(from, s)
    /\ sent' = <<>>
    /\ result' = "Ok"
    /\ servers' = [servers EXCEPT ![from] = None]
    /\ UNCHANGED <<challenges, cleanup_challenges, cleanup_servers, now, running, call>>

\* handle_packet, the ServerRemove arm.
HandleServerRemove(from, s) ==
    /\ Receiving
    /\ decode(s).tag = "ServerRemove"
    /\ pkt' = Packet(from, s)
    /\ sent' = <<>>
    /\ result' = "Ok"
    /\ UNCHANGED <<challenges, servers, cleanup_challenges, cleanup_servers, now, running, call>>

\* The QueryServers arm without the filter on validity.
QueryMatches_all(map, t, region, filter) ==
    {a \in DOMAIN map : map[a].some /\ Entry_matches(map[a], a, region, filter)}

\* The addresses the QueryServers arm streams into the list encoder.
QueryMatches(map, t, region, filter) ==
    {a \in DOMAIN map :
        /\ map[a].some
        /\ is_valid(map[a], t, timeout.server)
        /\ Entry_matches(map[a], a, region, filter)}

\* handle_packet, the QueryServers arm.  order is the order the map iterator
\* yields the matching addresses in, fail the send_to that fails (0: none).
HandleQueryServers(from, s) ==
    /\ Receiving
    /\ decode(s).tag = "QueryServers"
    /\ pkt' = Packet(from, s)
    /\ UNCHANGED <<challenges, servers, cleanup_challenges, cleanup_servers, now, running, call>>
    /\ LET filter == filter_from_bytes(decode(s).filter) IN
       IF ~filter.ok
       THEN sent' = <<>> /\ result' = "Ok"
       ELSE \E order \in Orderings(QueryMatches(servers, now, decode(s).region, filter.val)),
               fail \in 0..1 :
               LET r == send_server_list(from, order, fail) IN
               sent' = r.sent /\ result' = r.result

\* handle_packet, the ServerInfo arm: an empty datagram is sent.
HandleServerInfo(from, s) ==
    /\ Receiving
    /\ decode(s).tag = "ServerInfo"
    /\ pkt' = Packet(from, s)
    /\ UNCHANGED <<challenges, servers, cleanup_challenges, cleanup_servers, now, running, call>>
    /\ \E send_ok \in BOOLEAN :
        IF send_ok
        THEN sent' = <<Datagram(from, <<>>)>> /\ result' = "Ok"
        ELSE sent' = <<>> /\ result' = "Io"

\* One iteration of the run loop that receives a datagram.
Receive ==
    \E from \in Peers, s \in Datagrams :
        \/ HandleInvalid(from, s)
        \/ HandleChallenge(from, s)
        \/ HandleServerAdd(from, s)
        \/ HandleServerRemove(from, s)
        \/ HandleQueryServers(from, s)
        \/ HandleServerInfo(from, s)

Next ==
    \/ Tick
    \/ Continue
    \/ RecvError
    \/ RecvTooLong(P2, Oversize)
    \/ RecvV6(<<113>>)
    \/ Receive

Spec == Init /\ [][Next]_vars

\* -------------------------------------------------- the server with sweeps due
\* The state after P1 has registered 101 times within the first second (a
\* Challenge answered and a ServerAdd accepted each time, the last one
\* carrying "\gamedir\valve\map\cf\region\3") and P2 has then sent a
\* Challenge whose response send_to failed: both skip counters stand at
\* their threshold, so the next eviction call of either map sweeps.
InitWarm ==
    /\ challenges = [a \in Peers |-> IF a = P2 THEN Entry(U32Zero, Nonce1) ELSE None]
    /\ servers = [a \in Peers |->
                    IF a = P1
                    THEN Entry(U32Zero, Server_new(decode(ServerAddDatagram(Nonce1, InfoEurope)).info))
                    ELSE None]
    /\ cleanup_challenges = CHALLENGE_CLEANUP_MAX
    /\ cleanup_servers = SERVER_CLEANUP_MAX
    /\ now = U32Zero
    /\ running = TRUE
    /\ pkt = NoPacket
    /\ sent = <<>>
    /\ result = "None"
    /\ call = NoCall

SpecWarm == InitWarm /\ [][Next]_vars

\* ------------------------------------------- the server at the clock's wrap
\* The state 2^32 - 1 seconds after start of a server on which P1 registered
\* 101 times within the first second (the last time with
\* "\gamedir\valve\map\cf\region\3") and nothing was accepted since: every
\* challenge is consumed, the 101st eviction call of either map has reset its
\* skip counter, P1's entry expired long ago and no sweep was due to remove
\* it, and the next second wraps the u32 seconds counter to 0.
InitWrap ==
    /\ challenges = [a \in Peers |-> None]
    /\ servers = [a \in Peers |->
                    IF a = P1
                    THEN Entry(U32Zero, Server_new(decode(ServerAddDatagram(Nonce1, InfoEurope)).info))
                    ELSE None]
    /\ cleanup_challenges = 0
    /\ cleanup_servers = 0
    /\ now = U32(65535, 65535)
    /\ running = TRUE
    /\ pkt = NoPacket
    /\ sent = <<>>
    /\ result = "None"
    /\ call = NoCall

SpecWrap == InitWrap /\ [][Next]_vars

\* ------------------------------------------------ the server under traffic
\* The run loop while recv_from keeps returning datagrams: an iteration
\* that has handled its datagram returns to recv_from, and a datagram keeps
\* arriving.
NextTraffic ==
    \/ Tick
    \/ Continue
    \/ RecvV6(<<113>>)
    \/ Receive

SpecTraffic ==
    InitWarm /\ [][NextTraffic]_vars /\ WF_vars(Continue) /\ WF_vars(Receive)

\* --------------------------------------------------- the list encoder alone
\* The i-th of the distinct addresses the encoder is applied to.
ListAddr(i) == [ip |-> <<10, 1, i \div 256, i % 256>>, port |-> 27000 + i]

ListIter(n) == [i \in 1..n |-> ListAddr(i)]

\* send_server_list is applied to n addresses; send_to number fail fails.
InitList ==
    /\ challenges = [a \in Peers |-> None]
    /\ servers = [a \in Peers |-> None]
    /\ cleanup_challenges = 0
    /\ cleanup_servers = 0
    /\ now = U32Zero
    /\ running = TRUE
    /\ pkt = NoPacket
    /\ sent = <<>>
    /\ result = "None"
    /\ call \in {[n |-> n, fail |-> f, out |-> None] : n \in 0..MaxServers, f \in 0..3}

CallSendServerList ==
    /\ ~call.out.some
    /\ call' = [call EXCEPT !.out = Some(send_server_list(P1, ListIter(call.n), call.fail))]
    /\ UNCHANGED <<challenges, servers, cleanup_challenges, cleanup_servers, now, running,
                   pkt, sent, result>>

NextList == CallSendServerList

SpecList == InitList /\ [][NextList]_vars

\* ------------------------------------------- single operations on their own
\* Entry::is_valid as the build compiles it.  `now - self.time` is the
\* subtraction operator of u32: compiled with overflow checks (the dev
\* profile) it panics when now < time, compiled without them (the release
\* profile) it wraps.
is_valid_build(entry, t, duration, overflow_checks) ==
    IF overflow_checks /\ U32Lt(t, entry.time) THEN "panic"
    ELSE IF is_valid(entry, t, duration) THEN "true"
    ELSE "false"

\* The clock readings within MaxWrap seconds of the wrap of the u32 seconds
\* counter, on either side of it.
ClockEdge ==
    {U32FromNat(k) : k \in 0..MaxWrap}
    \cup {U32WrappingSub(U32Zero, U32FromNat(k)) : k \in 1..MaxWrap}

\* One attribute of an attribute stream: "\key\val"
Attr(key, val) == <<BSLASH>> \o key \o <<BSLASH>> \o val

\* The attribute stream of the flag attributes attrs, each a flag key and
\* a bit, after the attributes head.
RECURSIVE Stream(_, _)
Stream(head, attrs) ==
    IF attrs = <<>> THEN head
    ELSE Stream(head \o Attr(attrs[1].key, <<48 + attrs[1].bit>>), Tail(attrs))

\* gameaddr values that are text but no address: "a.b", "10.0.0.256",
\* "10.0.0.1:65536", "10.0.0.1:" and the empty value
GameAddrTexts ==
    {<<97, 46, 98>>, <<49, 48, 46, 48, 46, 48, 46, 50, 53, 54>>,
     <<49, 48, 46, 48, 46, 48, 46, 49, 58, 54, 53, 53, 51, 54>>,
     <<49, 48, 46, 48, 46, 48, 46, 49, 58>>, <<>>}

\* What precedes them in a filter: nothing, or "\gameaddr\10.0.0.1"
GameAddrHeads == {<<>>, Attr(Key.gameaddr, <<49, 48, 46, 48, 46, 48, 46, 49>>)}

\* Filters the matcher enforces a field of: none, "\full\1", "\empty\0",
\* "\dedicated\1", "\white\1", "\map\cf", "\map\dm", "\gamedir\valve",
\* "\version_match\1", "\gameaddr\10.0.0.1", "\gameaddr\10.0.0.1:27015",
\* "\map\c", "\gamedir\cs", "\version_match\2", "\gameaddr\10.0.0.1:1",
\* "\map\cf\gamedir\valve"
BaseFilters ==
    {<<>>, Attr(Key.full, <<49>>), Attr(Key.empty, <<48>>), Attr(Key.dedicated, <<49>>),
     Attr(Key.white, <<49>>), Attr(Key.map, <<99, 102>>), Attr(Key.map, <<100, 109>>),
     Attr(Key.gamedir, <<118, 97, 108, 118, 101>>), Attr(Key.version_match, <<49>>),
     Attr(Key.gameaddr, <<49, 48, 46, 48, 46, 48, 46, 49>>),
     Attr(Key.gameaddr, <<49, 48, 46, 48, 46, 48, 46, 49, 58, 50, 55, 48, 49, 53>>),
     Attr(Key.map, <<99>>), Attr(Key.gamedir, <<99, 115>>), Attr(Key.version_match, <<50>>),
     Attr(Key.gameaddr, <<49, 48, 46, 48, 46, 48, 46, 49, 58, 49>>),
     Attr(Key.map, <<99, 102>>) \o Attr(Key.gamedir, <<118, 97, 108, 118, 101>>)}

\* What a query may add to them: nothing, "\gametype\a", "\gamedata\a",
\* "\gamedataor\a", "\name_match\a", "\appid\70", "\napp\60",
\* "\collapse_addr_hash\1", "\nor\0", "\nor\1", "\nand\0", "\nand\1"
ExtraFilters ==
    {<<>>, Attr(Key.gametype, <<97>>), Attr(Key.gamedata, <<97>>),
     Attr(Key.gamedataor, <<97>>), Attr(Key.name_match, <<97>>),
     Attr(Key.appid, <<55, 48>>), Attr(Key.napp, <<54, 48>>),
     Attr(Key.collapse_addr_hash, <<49>>), Attr(Key.nor, <<48>>), Attr(Key.nor, <<49>>),
     Attr(Key.nand, <<48>>), Attr(Key.nand, <<49>>)}

\* Filter::from_bytes of these filters, evaluated once.
MatchFilterCache ==
    [f \in {base \o extra : base \in BaseFilters, extra \in ExtraFilters} |->
        Filter_from_bytes(f)]

\* The operations applied on their own and their inputs:
\*   is_valid  Entry::is_valid on an entry written at time, read at now
\*   remove_outdated  remove_outdated_challenges or remove_outdated_servers,
\*             invoked again and again from the counter of a new MasterServer,
\*             at clock MaxTime, on a map that holds an entry written at 0
\*             (P1) and one written at MaxTime (P2)
\*   retain    the sweep of a map read at now, each peer absent or written at
\*             a clock reading near the wrap
\*   parse_bytes  Parser::parse_bytes on a cursor of up to MaxText bytes drawn
\*             from the two delimiters, a letter and NUL
\*   parse_int  Parser::parse of uN (signed FALSE) or iN (signed TRUE), N =
\*             bits, on the cursor of a backslash and text: every text of
\*             up to MaxText bytes over - 0 1 2 5 6 8 9 x, and +5, +, 65535,
\*             65536, -32768, -32769, 4294967295, 4294967296, -2147483648,
\*             -2147483649
\*   parse_region  Parser::parse of Region on the cursor of a backslash and
\*             text: the enumerated integer texts and 3, 4, 7
\*   info      ServerInfo::from_bytes of the stream of up to MaxAttrs
\*             attributes, each one of challenge, players, map, bots and
\*             region with the value 0 or 1, followed by ending: nothing,
\*             "\n", "\ntail", "\n\n" or "\n\map\1"
\*   unknown   Filter::from_bytes (which = "filter") or ServerInfo::from_bytes
\*             (which = "info") of the stream before \o \key[\val] \o after,
\*             where key is a name neither decoder knows (unknown, the
\*             empty name, x), and of the
\*             stream before \o after
\*   decode    Packet::decode of the datagram "1" \o body, body of up to
\*             MaxText + 1 bytes drawn from NUL, the regions 3 and 0xff,
\*             the byte 8 and a letter
\*   from_bytes  Filter::from_bytes of the stream of head and up to MaxAttrs
\*             flag attributes; head is nothing, "\map\cf", or a gameaddr
\*             attribute whose value is no address, alone or after
\*             "\gameaddr\10.0.0.1"
\*   matches   Filter::matches of the filter base \o extra on the address
\*             addr and the server Server::new makes of info, with the flags
\*             more set that no registration sets
InitCalls ==
    /\ challenges = [a \in Peers |-> None]
    /\ servers = [a \in Peers |-> None]
    /\ cleanup_challenges = 0
    /\ cleanup_servers = 0
    /\ now = U32Zero
    /\ running = TRUE
    /\ pkt = NoPacket
    /\ sent = <<>>
    /\ result = "None"
    /\ \/ call \in
            {[kind |-> "is_valid", now |-> t, time |-> w, duration |-> U32FromNat(d),
              overflow_checks |-> b, out |-> None] :
                t \in ClockEdge, w \in ClockEdge, d \in 1..(2 * MaxWrap), b \in BOOLEAN}
       \/ call \in
            {[kind |-> "remove_outdated", which |-> w,
              map |-> [a \in Peers |->
                        Entry(IF a = P1 THEN U32Zero ELSE U32FromNat(MaxTime),
                              IF w = "challenges" THEN Nonce1
                              ELSE Server_new(ServerInfoDefault))],
              count |-> 0, calls |-> 0, sweeps |-> 0, out |-> None] :
                w \in {"challenges", "servers"}}
       \/ call \in
            {[kind |-> "retain", map |-> [a \in Peers |-> IF a = P1 THEN e1 ELSE e2],
              now |-> t, duration |-> U32FromNat(d), overflow_checks |-> b, out |-> None] :
                e1 \in {None} \cup {Entry(w, Nonce1) : w \in ClockEdge},
                e2 \in {None} \cup {Entry(w, Nonce2) : w \in ClockEdge},
                t \in ClockEdge, d \in 1..(2 * MaxWrap), b \in BOOLEAN}
       \/ call \in
            {[kind |-> "matches", base |-> base, extra |-> extra, addr |-> addr,
              info |-> [ServerInfoDefault EXCEPT
                            !.gamedir = <<118, 97, 108, 118, 101>>, !.map = <<99, 102>>,
                            !.version = <<49>>, !.server_type = ty, !.os = os,
                            !.flags = fl, !.players = pm[1], !.max = pm[2]],
              more |-> more, out |-> None] :
                base \in BaseFilters, extra \in ExtraFilters, addr \in Peers,
                ty \in {"Dedicated", "Local", "Proxy", "Unknown"},
                os \in {"Linux", "Unknown"},
                fl \in {{}, {"SECURE"}, {"PASSWORD", "LAN"}, {"BOTS", "PASSWORD", "SECURE", "LAN"}},
                pm \in {<<0, 8>>, <<4, 8>>, <<8, 8>>, <<0, 0>>},
                more \in {{}, {WHITE, NOR}}}
       \/ call \in
            {[kind |-> "from_bytes", head |-> head, attrs |-> attrs, out |-> None] :
                head \in {<<>>, Attr(Key.map, <<99, 102>>)}
                            \cup {pre \o Attr(Key.gameaddr, v) :
                                    pre \in GameAddrHeads, v \in GameAddrTexts},
                attrs \in UNION {[1..n -> [key : FilterFlagKeys, bit : {0, 1}]] :
                                    n \in 0..MaxAttrs}}
       \/ call \in
            {[kind |-> "unknown", which |-> w, before |-> bf, key |-> k, val |-> v,
              after |-> af, out |-> None] :
                w \in {"filter", "info"},
                bf \in {<<>>, Attr(Key.appid, <<55, 48>>), Attr(Key.secure, <<49>>)},
                k \in {<<117, 110, 107, 110, 111, 119, 110>>, <<>>, <<120>>},
                v \in {None} \cup {Some(x) : x \in {<<120, 121, 122>>, <<>>, <<49>>, <<255>>}},
                af \in {<<>>, Attr(Key.map, <<99, 102>>), <<NEWLINE, 120>>}}
       \/ call \in
            {[kind |-> "parse_region", text |-> t, out |-> None] :
                t \in UNION {[1..n -> {45, 48, 49, 50, 53, 54, 56, 57, 120}] :
                                n \in 0..MaxText}
                      \cup {<<51>>, <<52>>, <<55>>}}
       \/ call \in
            {[kind |-> "info", attrs |-> a, ending |-> e, out |-> None] :
                a \in UNION {[1..n -> [key : {Key.challenge, Key.players, Key.map, Key.bots,
                                              Key.region},
                                       bit : {0, 1}]] : n \in 0..MaxAttrs},
                e \in {<<>>, <<NEWLINE>>, <<NEWLINE, 116, 97, 105, 108>>, <<NEWLINE, NEWLINE>>,
                       <<NEWLINE>> \o Attr(Key.map, <<49>>)}}
       \/ call \in
            {[kind |-> "decode", body |-> b, out |-> None] :
                b \in UNION {[1..n -> {NUL, EUROPE, 8, REST_OF_WORLD, 97}] :
                                n \in 0..(MaxText + 1)}}
       \/ call \in
            {[kind |-> "parse_bytes", cur |-> c, out |-> None] :
                c \in UNION {[1..n -> {BSLASH, NEWLINE, 97, 0}] : n \in 0..MaxText}}
       \/ call \in
            {[kind |-> "parse_int", signed |-> sg, bits |-> b, text |-> t, out |-> None] :
                sg \in BOOLEAN, b \in {8, 16, 32},
                t \in UNION {[1..n -> {45, 48, 49, 50, 53, 54, 56, 57, 120}] :
                                n \in 0..MaxText}
                      \cup {<<43, 53>>, <<43>>,
                            <<54, 53, 53, 51, 53>>, <<54, 53, 53, 51, 54>>,
                            <<45, 51, 50, 55, 54, 56>>, <<45, 51, 50, 55, 54, 57>>,
                            <<52, 50, 57, 52, 57, 54, 55, 50, 57, 53>>,
                            <<52, 50, 57, 52, 57, 54, 55, 50, 57, 54>>,
                            <<45, 50, 49, 52, 55, 52, 56, 51, 54, 52, 56>>,
                            <<45, 50, 49, 52, 55, 52, 56, 51, 54, 52, 57>>}}

CallIsValid ==
    /\ call.kind = "is_valid"
    /\ ~call.out.some
    /\ call' = [call EXCEPT !.out =
                    Some(is_valid_build(Entry(call.time, Nonce1), call.now, call.duration,
                                        call.overflow_checks))]
    /\ UNCHANGED <<challenges, servers, cleanup_challenges, cleanup_servers, now, running,
                   pkt, sent, result>>

\* One more invocation of the eviction routine; a call that leaves the
\* counter at 0 is one that swept.
CallRemoveOutdated ==
    /\ call.kind = "remove_outdated"
    /\ call.calls < MaxCalls
    /\ LET r == IF call.which = "challenges"
                THEN remove_outdated_challenges(call.map, call.count, U32FromNat(MaxTime),
                                                timeout.challenge)
                ELSE remove_outdated_servers(call.map, call.count, U32FromNat(MaxTime),
                                             timeout.server)
       IN  call' = [call EXCEPT !.map = r.map, !.count = r.count, !.calls = @ + 1,
                                !.sweeps = IF r.count = 0 THEN @ + 1 ELSE @]
    /\ UNCHANGED <<challenges, servers, cleanup_challenges, cleanup_servers, now, running,
                   pkt, sent, result>>

\* The sweep visits every entry with is_valid: built with overflow checks it
\* panics on an entry whose time is above now.
CallRetain ==
    /\ call.kind = "retain"
    /\ ~call.out.some
    /\ call' = [call EXCEPT !.out = Some(
                    IF \E a \in Peers :
                          /\ call.map[a].some
                          /\ is_valid_build(call.map[a], call.now, call.duration,
                                            call.overflow_checks) = "panic"
                    THEN [panic |-> TRUE]
                    ELSE [panic |-> FALSE,
                          map |-> retain_valid(call.map, call.now, call.duration)])]
    /\ UNCHANGED <<challenges, servers, cleanup_challenges, cleanup_servers, now, running,
                   pkt, sent, result>>

CallMatches ==
    /\ call.kind = "matches"
    /\ ~call.out.some
    /\ call' = [call EXCEPT !.out = Some(
                    matches(MatchFilterCache[call.base \o call.extra].val, call.addr,
                            [Server_new(call.info) EXCEPT !.flags = @ \cup call.more]))]
    /\ UNCHANGED <<challenges, servers, cleanup_challenges, cleanup_servers, now, running,
                   pkt, sent, result>>

CallFromBytes ==
    /\ call.kind = "from_bytes"
    /\ ~call.out.some
    /\ call' = [call EXCEPT !.out = Some(Filter_from_bytes(Stream(call.head, call.attrs)))]
    /\ UNCHANGED <<challenges, servers, cleanup_challenges, cleanup_servers, now, running,
                   pkt, sent, result>>

\* Parser::new(cur).parse_bytes(), or Parser::new(b"\\" + text).parse::<T>()
\* for the integer type T of the call or for Region.
CallParser ==
    /\ call.kind \in {"parse_bytes", "parse_int", "parse_region"}
    /\ ~call.out.some
    /\ call' = [call EXCEPT !.out = Some(
                    IF call.kind = "parse_bytes" THEN parse_bytes(call.cur)
                    ELSE IF call.kind = "parse_region"
                    THEN parse_region(<<BSLASH>> \o call.text)
                    ELSE IF call.signed THEN parse_int(<<BSLASH>> \o call.text, call.bits)
                    ELSE parse_uint(<<BSLASH>> \o call.text, call.bits))]
    /\ UNCHANGED <<challenges, servers, cleanup_challenges, cleanup_servers, now, running,
                   pkt, sent, result>>

\* The decoder of call.which on the stream with the unknown key and on the
\* stream without it.
CallUnknownKey ==
    /\ call.kind = "unknown"
    /\ ~call.out.some
    /\ LET pair == <<BSLASH>> \o call.key \o
                        (IF call.val.some THEN <<BSLASH>> \o call.val.v ELSE <<>>)
           with == call.before \o pair \o call.after
           without == call.before \o call.after
       IN  call' = [call EXCEPT !.out = Some(
                        IF call.which = "filter"
                        THEN [with |-> Filter_from_bytes(with),
                              without |-> Filter_from_bytes(without)]
                        ELSE [with |-> ServerInfo_from_bytes(with),
                              without |-> ServerInfo_from_bytes(without)])]
    /\ UNCHANGED <<challenges, servers, cleanup_challenges, cleanup_servers, now, running,
                   pkt, sent, result>>

\* Packet::decode(b"1" + body)
CallDecode ==
    /\ call.kind = "decode"
    /\ ~call.out.some
    /\ call' = [call EXCEPT !.out = Some(Packet_decode(<<49>> \o call.body))]
    /\ UNCHANGED <<challenges, servers, cleanup_challenges, cleanup_servers, now, running,
                   pkt, sent, result>>

\* ServerInfo::from_bytes of the attributes and the ending of the call.
CallInfoFromBytes ==
    /\ call.kind = "info"
    /\ ~call.out.some
    /\ call' = [call EXCEPT !.out =
                    Some(ServerInfo_from_bytes(Stream(<<>>, call.attrs) \o call.ending))]
    /\ UNCHANGED <<challenges, servers, cleanup_challenges, cleanup_servers, now, running,
                   pkt, sent, result>>

NextCalls ==
    \/ CallParser
    \/ CallInfoFromBytes
    \/ CallDecode
    \/ CallUnknownKey
    \/ CallIsValid
    \/ CallRemoveOutdated
    \/ CallRetain
    \/ CallMatches
    \/ CallFromBytes

SpecCalls == InitCalls /\ [][NextCalls]_vars

\* ---------------------------------------------------------------- claims

\* The step is an iteration of the run loop that hands a datagram of an IPv4
\* peer to handle_packet; pkt' is the datagram, the unprimed variables are
\* the server's state when it arrives.
Handled == pkt = NoPacket /\ pkt'.kind = "v4"

\* ... and Packet::decode yields the variant tag.
HandledTag(tag) == Handled /\ decode(pkt'.data).tag = tag

\* The last iteration handled a datagram that decodes to the variant tag.
Saw(tag) == pkt.kind = "v4" /\ decode(pkt.data).tag = tag

\* The echo c is the nonce pending for peer P, and that challenge is still
\* valid: (now - time) < challenge_ttl.
EchoHeld(P, c) ==
    /\ c.some
    /\ challenges[P].some
    /\ U32Lt(U32WrappingSub(now, challenges[P].time), timeout.challenge)
    /\ c.v = challenges[P].value

\* After the step P's server entry is the one made of info, stamped with a
\* clock reading of the step.
Registered(P, info) ==
    /\ servers'[P].some
    /\ servers'[P].value = Server_new(info)
    /\ U32Le(now, servers'[P].time)
    /\ U32Le(servers'[P].time, now')

ServerAddGate(P, p) ==
    IF EchoHeld(P, p.challenge) THEN Registered(P, p.info) ELSE servers' = servers

\* C1: handling ServerAdd(c, info) from P writes P's server entry if and
\* only if the challenge map holds a valid entry for P whose nonce is c; in
\* every other case the server map is unchanged.
C1_ServerAddGate ==
    [][HandledTag("ServerAdd") => ServerAddGate(pkt'.from, decode(pkt'.data))]_vars

\* A ServerAdd has just been accepted after the first second: the entry of
\* its sender carries the current clock reading and the info of the
\* datagram, and the challenge is gone.
C1_Witness ==
    /\ Saw("ServerAdd")
    /\ now # U32Zero
    /\ servers[pkt.from].some
    /\ servers[pkt.from].time = now
    /\ servers[pkt.from].value = Server_new(decode(pkt.data).info)
    /\ ~challenges[pkt.from].some

Consumed(P, p) ==
    /\ EchoHeld(P, p.challenge) => ~challenges'[P].some
    /\ ~challenges[P].some => servers'[P] = servers[P]

\* C2: an accepted ServerAdd from P removes P's challenge; a ServerAdd from
\* P that finds no challenge leaves P's server entry and its timestamp as
\* they are; and only a Challenge from P gives P a challenge again.
C2_SingleUse ==
    [][/\ HandledTag("ServerAdd") => Consumed(pkt'.from, decode(pkt'.data))
       /\ \A P \in Peers :
            (~challenges[P].some /\ challenges'[P].some)
                => HandledTag("Challenge") /\ pkt'.from = P]_vars

\* A ServerAdd with an echo arrived from a registered peer that has no
\* pending challenge, and the entry still carries the earlier timestamp.
C2_Witness ==
    /\ Saw("ServerAdd")
    /\ decode(pkt.data).challenge.some
    /\ ~challenges[pkt.from].some
    /\ servers[pkt.from].some
    /\ servers[pkt.from].time # now

\* The nonce a challenge response carries: bytes 7..10, little-endian.
ResponseNonce(data) ==
    U32(data[9] + 256 * data[10], data[7] + 256 * data[8])

\* After a Challenge from P the map holds for P the nonce just issued,
\* stamped with the clock reading of its arrival, unless the sweep of the same
\* dispatch found it expired.
Replaced(P) ==
    /\ challenges'[P].some =>
        /\ challenges'[P].time = now
        /\ challenges'[P].value \in Nonces
        /\ sent' # <<>> => challenges'[P].value = ResponseNonce(sent'[1].data)
    /\ ~challenges'[P].some =>
        /\ cleanup_challenges = CHALLENGE_CLEANUP_MAX
        /\ ~U32Lt(U32WrappingSub(now', now), timeout.challenge)

\* C3: a peer has at most one pending challenge: a Challenge from P replaces
\* P's entry (nonce and timestamp), only a Challenge from P writes it, and a
\* ServerAdd that changes the server map echoes the nonce stored, which is
\* the one issued last.
C3_OnePending ==
    [][/\ HandledTag("Challenge") => Replaced(pkt'.from)
       /\ \A P \in Peers :
            (challenges'[P].some /\ challenges'[P] # challenges[P])
                => HandledTag("Challenge") /\ pkt'.from = P
       /\ (HandledTag("ServerAdd") /\ servers' # servers)
            => /\ challenges[pkt'.from].some
               /\ decode(pkt'.data).challenge = Some(challenges[pkt'.from].value)]_vars

\* A ServerAdd that echoes another nonce than the one issued last in this
\* second was dropped: the challenge is still pending and the peer is not
\* registered.
C3_Witness ==
    /\ Saw("ServerAdd")
    /\ decode(pkt.data).challenge.some
    /\ challenges[pkt.from].some
    /\ challenges[pkt.from].time = now
    /\ challenges[pkt.from].value # decode(pkt.data).challenge.v
    /\ ~servers[pkt.from].some

\* The number of address tuples of a list datagram, and its i-th tuple:
\* four bytes of the IPv4 address, then the port, high byte first.
TupleCount(data) == (Len(data) - 12) \div 6

TupleAt(data, i) ==
    [ip |-> <<data[6 * i + 1], data[6 * i + 2], data[6 * i + 3], data[6 * i + 4]>>,
     port |-> 256 * data[6 * i + 5] + data[6 * i + 6]]

\* The addresses the list datagrams out carry.
Listed(out) ==
    UNION {{TupleAt(out[k].data, i) : i \in 1..TupleCount(out[k].data)} : k \in 1..Len(out)}

\* The server entry of a is older than server_ttl at the clock reading t.
Outdated(a, t) ==
    servers[a].some /\ U32Lt(timeout.server, U32WrappingSub(t, servers[a].time))

\* C4: a QueryServers handled at clock reading now lists no address whose
\* server entry was written more than server_ttl seconds before now (and
\* none that has no entry), whether or not a sweep has removed the entry.
C4_NoOutdatedListed ==
    [][HandledTag("QueryServers") =>
        \A a \in Listed(sent') : a \in Peers /\ servers[a].some /\ ~Outdated(a, now)]_vars

\* A query with an empty filter was answered while the map still held an
\* entry of the queried region written more than server_ttl seconds ago: the
\* response does not carry its address.
C4_Witness ==
    /\ Saw("QueryServers")
    /\ result = "Ok"
    /\ decode(pkt.data).filter = <<>>
    /\ \E a \in Peers :
        /\ Outdated(a, now)
        /\ servers[a].value.region = decode(pkt.data).region
        /\ a \notin Listed(sent)

\* C7: the response to QueryServers(R, filter) carries only addresses of
\* entries whose stored region is R.
C7_RegionOnly ==
    [][HandledTag("QueryServers") =>
        \A a \in Listed(sent') :
            /\ a \in Peers
            /\ servers[a].some
            /\ servers[a].value.region = decode(pkt'.data).region]_vars

\* The server entry of a is valid at the clock reading t.
Fresh(a, t) ==
    servers[a].some /\ U32Lt(U32WrappingSub(t, servers[a].time), timeout.server)

\* With a valid EUROPE entry and a valid ASIA entry in the map, a query for
\* EUROPE was answered with the address of the EUROPE entry alone.
C7_Witness ==
    /\ Saw("QueryServers")
    /\ decode(pkt.data).region = EUROPE
    /\ \E a, b \in Peers :
        /\ Fresh(a, now) /\ servers[a].value.region = EUROPE
        /\ Fresh(b, now) /\ servers[b].value.region = ASIA
        /\ Listed(sent) = {a}

\* The text k occurs in the bytes s.
HasText(s, k) ==
    \E i \in 1..(Len(s) - Len(k) + 1) : SubSeq(s, i, i + Len(k) - 1) = k

\* "\region\"
RegionKey == <<92, 114, 101, 103, 105, 111, 110, 92>>

\* The registration s carries no region attribute, or the region -1.
NoRegion(s) == ~HasText(s, RegionKey) \/ HasText(s, RegionKey \o <<45, 49, 10>>)

\* C8: an accepted ServerAdd without a region attribute (or with region -1)
\* stores the region REST_OF_WORLD; a QueryServers for region R with an
\* empty filter that is answered in full carries the address of every valid
\* entry of region R; and an entry of region REST_OF_WORLD is listed for the
\* region byte 0xff only.
C8_Handshake ==
    [][/\ (HandledTag("ServerAdd") /\ NoRegion(pkt'.data)
            /\ EchoHeld(pkt'.from, decode(pkt'.data).challenge))
            => /\ servers'[pkt'.from].some
               /\ servers'[pkt'.from].value.region = REST_OF_WORLD
       /\ (HandledTag("QueryServers") /\ decode(pkt'.data).filter = <<>> /\ result' = "Ok")
            => \A a \in Peers :
                (Fresh(a, now) /\ servers[a].value.region = decode(pkt'.data).region)
                    => a \in Listed(sent')
       /\ HandledTag("QueryServers")
            => \A a \in Listed(sent') \cap Peers :
                (servers[a].some /\ servers[a].value.region = REST_OF_WORLD)
                    => decode(pkt'.data).region = 255]_vars

\* A query for the region byte 0xff with an empty filter was answered with
\* the address of a valid entry whose stored region is REST_OF_WORLD.
C8_Witness ==
    /\ Saw("QueryServers")
    /\ decode(pkt.data).region = 255
    /\ decode(pkt.data).filter = <<>>
    /\ result = "Ok"
    /\ \E a \in Peers :
        /\ Fresh(a, now)
        /\ servers[a].value.region = REST_OF_WORLD
        /\ a \in Listed(sent)

\* The bytes d answer the request data with the nonce x.
ReplyBytes(d, data, x) ==
    /\ SubSeq(d, 1, 6) = <<255, 255, 255, 255, 115, 10>>
    /\ SubSeq(d, 7, 10) = <<x.lo % 256, x.lo \div 256, x.hi % 256, x.hi \div 256>>
    /\ IF Len(data) = 6 /\ data[1] = 113 /\ data[2] = 255
       THEN Len(d) = 14 /\ SubSeq(d, 11, 14) = SubSeq(data, 3, 6)
       ELSE Len(d) = 10

\* C9: the datagram sent for a Challenge goes to its sender and is the
\* header ff ff ff ff 73 0a, the issued nonce (the one stored for the
\* sender) as 4 little-endian bytes and, if and only if the request was
\* 'q' 0xff b0 b1 b2 b3, the bytes b0..b3 as received: 14 bytes then, 10
\* bytes for a bare 'q'.
C9_ChallengeResponse ==
    [][(HandledTag("Challenge") /\ sent' # <<>>) =>
        /\ Len(sent') = 1
        /\ sent'[1].to = pkt'.from
        /\ challenges'[pkt'.from].some
        /\ ReplyBytes(sent'[1].data, pkt'.data, challenges'[pkt'.from].value)]_vars

\* The request "q\xff\x01\x02\x03\x04" was answered with the nonce
\* 0x01020304: 14 bytes that end with 04 03 02 01 01 02 03 04.
C9_Witness ==
    /\ Saw("Challenge")
    /\ pkt.data = <<113, 255, 1, 2, 3, 4>>
    /\ sent # <<>>
    /\ Len(sent[1].data) = 14
    /\ SubSeq(sent[1].data, 7, 14) = <<4, 3, 2, 1, 1, 2, 3, 4>>

\* C10: the iteration a datagram arrives in leaves the loop running
\* whatever the datagram and whatever handle_packet returns, the step after
\* it returns to recv_from with the loop still running, and that step can
\* always be taken.
C10_LoopContinues ==
    [][/\ (pkt = NoPacket /\ pkt' # NoPacket)
            => running' /\ result' \in {"None", "Ok", "MissingChallenge", "Io"}
       /\ (pkt # NoPacket /\ running) => (pkt' = NoPacket /\ running')
       /\ (pkt # NoPacket /\ running) => ENABLED Continue]_vars

\* The server entry, or the challenge, of a has expired and is in its map.
StaleServer(a) == servers[a].some /\ ~Fresh(a, now)

StaleChallenge(a) ==
    /\ challenges[a].some
    /\ ~U32Lt(U32WrappingSub(now, challenges[a].time), timeout.challenge)

\* C5: while datagrams keep arriving, every expired server entry and every
\* expired challenge is eventually removed from its map.
C5_EventuallyEvicted ==
    \A a \in Peers :
        /\ StaleServer(a) ~> ~StaleServer(a)
        /\ StaleChallenge(a) ~> ~StaleChallenge(a)

\* The entry e (of either map) is absent or valid for ttl at the clock
\* reading t.
NotStale(e, t, ttl) == e.some => U32Lt(U32WrappingSub(t, e.time), ttl)

\* The step calls remove_outdated_servers: a ServerAdd is accepted.
ServerEvictionCalled ==
    HandledTag("ServerAdd") /\ EchoHeld(pkt'.from, decode(pkt'.data).challenge)

\* The step calls remove_outdated_challenges: the response to a Challenge
\* is sent.
ChallengeEvictionCalled == HandledTag("Challenge") /\ sent' # <<>>

\* C5 as amended: eviction is driven by the eviction calls alone.  The call
\* that finds the skip counter of its map below 100 adds one to it and the
\* call that finds it at 100 resets it and leaves no expired entry in the
\* map; no other step changes a counter; a server entry leaves its map only
\* in a sweep that finds it expired, a challenge only so or when a ServerAdd
\* of its peer is accepted.
C5_SweepOnEvictionCall ==
    [][/\ ServerEvictionCalled =>
            IF cleanup_servers < SERVER_CLEANUP_MAX
            THEN cleanup_servers' = cleanup_servers + 1
            ELSE /\ cleanup_servers' = 0
                 /\ \A a \in Peers : NotStale(servers'[a], now', timeout.server)
       /\ ChallengeEvictionCalled =>
            IF cleanup_challenges < CHALLENGE_CLEANUP_MAX
            THEN cleanup_challenges' = cleanup_challenges + 1
            ELSE /\ cleanup_challenges' = 0
                 /\ \A a \in Peers : NotStale(challenges'[a], now', timeout.challenge)
       /\ cleanup_servers' # cleanup_servers => ServerEvictionCalled
       /\ cleanup_challenges' # cleanup_challenges => ChallengeEvictionCalled
       /\ \A a \in Peers :
            (servers[a].some /\ ~servers'[a].some) =>
                /\ ServerEvictionCalled
                /\ cleanup_servers = SERVER_CLEANUP_MAX
                /\ ~NotStale(servers[a], now', timeout.server)
       /\ \A a \in Peers :
            (challenges[a].some /\ ~challenges'[a].some) =>
                \/ ServerEvictionCalled /\ pkt'.from = a
                \/ /\ ChallengeEvictionCalled
                   /\ cleanup_challenges = CHALLENGE_CLEANUP_MAX
                   /\ ~NotStale(challenges[a], now', timeout.challenge)]_vars

\* The accepted ServerAdd of another peer has swept the server map after the
\* first second: the counter is back at 0 and the entry P1 registered at
\* second 0 is gone.
C5_Witness ==
    /\ Saw("ServerAdd")
    /\ pkt.from = P2
    /\ servers[P2].some
    /\ cleanup_servers = 0
    /\ now # U32Zero
    /\ ~servers[P1].some

\* The datagram d is a list datagram: the header, whole tuples, six zero
\* bytes, 512 bytes at most.
Framed(d) ==
    /\ Len(d) >= 12
    /\ Len(d) <= 512
    /\ (Len(d) - 12) % 6 = 0
    /\ SubSeq(d, 1, 6) = <<255, 255, 255, 255, 102, 10>>
    /\ SubSeq(d, Len(d) - 5, Len(d)) = <<0, 0, 0, 0, 0, 0>>

\* The number of tuples the list datagrams out carry.
TupleTotal(out) ==
    Cardinality(UNION {{<<k, i>> : i \in 1..TupleCount(out[k].data)} : k \in 1..Len(out)})

ListDelivers(n, fail, r) ==
    /\ \A k \in 1..Len(r.sent) : Framed(r.sent[k].data)
    /\ fail = 0 => r.result = "Ok"
    /\ r.result = "Ok" =>
        /\ Listed(r.sent) = {ListAddr(i) : i \in 1..n}
        /\ TupleTotal(r.sent) = n

\* C6: for any number N of addresses, every datagram send_server_list
\* emits is the list header, whole tuples and six zero bytes, 512 bytes at
\* most; the call succeeds when every send_to does, and the tuples of the
\* datagrams of a call that succeeds are the N addresses, N tuples in all.
C6_Fragmentation ==
    call.out.some => ListDelivers(call.n, call.fail, call.out.v)

\* The encoder has delivered MaxServers addresses in three datagrams.
C6_Witness ==
    /\ call.out.some
    /\ call.n = MaxServers
    /\ call.out.v.result = "Ok"
    /\ Len(call.out.v.sent) = 3
    /\ TupleTotal(call.out.v.sent) = MaxServers

\* The operation named kind has been applied on its own and call.out holds
\* what it returned.
Returned(kind) == call.kind = kind /\ call.out.some

\* C11: validity is (now - time) < d with wrapping 32-bit subtraction for all
\* u32 values of now and time, now < time after the wrap of the clock
\* included: the comparison never aborts, and an entry written one second
\* before the wrap is valid one second after it when d exceeds 2.
C11_WrappingValidity ==
    Returned("is_valid") =>
        /\ call.out.v # "panic"
        /\ call.out.v = "true" <=>
                U32Lt(U32WrappingSub(call.now, call.time), call.duration)
        /\ (/\ call.time = U32WrappingSub(U32Zero, U32FromNat(1))
            /\ call.now = U32FromNat(1)
            /\ U32Lt(U32FromNat(2), call.duration)) => call.out.v = "true"


\* C12: each eviction routine skips the sweep on 100 consecutive invocations,
\* adding one to its skip counter each time, and the 101st invocation sweeps
\* the map and resets the counter to 0; the counter is always within 0..100.
C12_AmortizedCounter ==
    call.kind = "remove_outdated" =>
        /\ call.count \in 0..100
        /\ call.count = call.calls % 101
        /\ call.sweeps = call.calls \div 101
        /\ call.calls < 101 => call.map[P1].some /\ call.map[P2].some
        /\ call.calls >= 101 => ~call.map[P1].some /\ call.map[P2].some

C12_Witness ==
    /\ call.kind = "remove_outdated"
    /\ call.calls = 101
    /\ call.count = 0
    /\ call.sweeps = 1
    /\ ~call.map[P1].some

\* The wrapping age at the clock reading t of an entry written at w.
Age(t, w) == U32WrappingSub(t, w)

\* C13: a sweep at clock now removes every entry whose (now - time) exceeds
\* the TTL and retains, unchanged, every entry whose (now - time) is below
\* it; it adds no entry.
C13_SweepExact ==
    Returned("retain") /\ ~call.out.v.panic =>
        \A a \in Peers :
            IF call.map[a].some
            THEN /\ U32Lt(call.duration, Age(call.now, call.map[a].time)) =>
                        ~call.out.v.map[a].some
                 /\ U32Lt(Age(call.now, call.map[a].time), call.duration) =>
                        call.out.v.map[a] = call.map[a]
            ELSE ~call.out.v.map[a].some

\* A sweep, in the build with overflow checks, has removed the entry of P1,
\* older than the TTL, and retained that of P2, younger than it.
C13_Witness ==
    /\ Returned("retain")
    /\ call.overflow_checks
    /\ ~call.out.v.panic
    /\ call.map[P1].some /\ ~call.out.v.map[P1].some
    /\ U32Lt(call.duration, Age(call.now, call.map[P1].time))
    /\ call.map[P2].some /\ call.out.v.map[P2] = call.map[P2]
    /\ U32Lt(Age(call.now, call.map[P2].time), call.duration)

\* The step accepts a ServerAdd of a peer that has a server entry.
ReRegistered ==
    /\ ServerEvictionCalled
    /\ servers[pkt'.from].some

\* C14: an accepted ServerAdd of a registered peer P replaces P's record by
\* the one made of the new info, stamped with a clock reading of the step;
\* nothing of the old entry stays.  (P's entry is absent afterwards only when
\* the call swept and the clock advanced by the TTL or more inside the
\* step.)  A later query is evaluated against the record the map holds then.
C14_ReRegistration ==
    [][/\ ReRegistered =>
            \/ Registered(pkt'.from, decode(pkt'.data).info)
            \/ /\ ~servers'[pkt'.from].some
               /\ cleanup_servers = SERVER_CLEANUP_MAX
               /\ ~U32Lt(U32WrappingSub(now', now), timeout.server)
       /\ HandledTag("QueryServers") /\ filter_from_bytes(decode(pkt'.data).filter).ok =>
            \A a \in Listed(sent') :
                /\ servers[a].some
                /\ servers[a].value.region = decode(pkt'.data).region
                /\ matches(filter_from_bytes(decode(pkt'.data).filter).val, a,
                           servers[a].value)]_vars

\* P1, registered for EUROPE with map cf at second 0, has registered again
\* for ASIA with map dm and its entry is valid: P1's record is the new one in
\* every field, and a query for EUROPE without a filter, which the old
\* record matched, is answered with the empty list.
C14_Witness ==
    /\ Saw("QueryServers")
    /\ pkt.data = QueryDatagram(EUROPE, <<>>, <<>>)
    /\ result = "Ok"
    /\ Len(sent) = 1
    /\ Listed(sent) = {}
    /\ Fresh(P1, now)
    /\ servers[P1].value = Server_new(decode(ServerAddDatagram(Nonce1, InfoAsia)).info)
    /\ servers[P1].value.region = ASIA
    /\ FULL \in servers[P1].value.flags

\* C15: a ServerAdd whose attribute stream has no challenge key is reported
\* as the MissingChallenge error; the server map, the challenge map (a valid
\* pending challenge of the peer included) and both skip counters are
\* unchanged and no datagram is sent.
C15_MissingChallenge ==
    [][HandledTag("ServerAdd") /\ ~HasText(pkt'.data, Key.challenge) =>
        /\ result' = "MissingChallenge"
        /\ sent' = <<>>
        /\ UNCHANGED <<challenges, servers, cleanup_challenges, cleanup_servers>>
        /\ running']_vars

\* A peer that holds a valid pending challenge has sent a ServerAdd without
\* a challenge key: the error is reported, the challenge is still pending
\* and the peer is not registered.
C15_Witness ==
    /\ Saw("ServerAdd")
    /\ pkt.data = ServerAddNoChallenge
    /\ result = "MissingChallenge"
    /\ sent = <<>>
    /\ challenges[pkt.from].some
    /\ U32Lt(U32WrappingSub(now, challenges[pkt.from].time), timeout.challenge)
    /\ ~servers[pkt.from].some

\* C16: handling ServerRemove, QueryServers or the Source Engine Query
\* packet leaves the challenge map, the server map and both skip counters
\* unchanged: a ServerRemove does not unregister its sender and a query
\* never sweeps, not even with the counters at their threshold.
C16_ReadOnlyDispatches ==
    [][(HandledTag("ServerRemove") \/ HandledTag("QueryServers") \/ HandledTag("ServerInfo")) =>
        UNCHANGED <<challenges, servers, cleanup_challenges, cleanup_servers>>]_vars

\* The registered peer P1 has sent a ServerRemove with both counters at their
\* threshold: P1 is still registered and valid, so a query lists it, the
\* pending challenge of P2 is still there and the counters have not moved.
C16_Witness ==
    /\ Saw("ServerRemove")
    /\ pkt.from = P1
    /\ Fresh(P1, now)
    /\ challenges[P2].some
    /\ cleanup_servers = SERVER_CLEANUP_MAX
    /\ cleanup_challenges = CHALLENGE_CLEANUP_MAX

\* The filter and the server of a call of matches.
CallFilter == MatchFilterCache[call.base \o call.extra].val

CallServer == [Server_new(call.info) EXCEPT !.flags = @ \cup call.more]

\* What matches returns for the filter base \o extra on the address and the
\* server of the call.
MatchesWith(extra) == matches(MatchFilterCache[call.base \o extra].val, call.addr, CallServer)

\* C17: if (server.flags & filter.flags_mask) != filter.flags then matches
\* returns false, whatever gamedir, map, version_match and gameaddr are.
C17_MatcherExactness ==
    Returned("matches") /\ (CallServer.flags \cap CallFilter.flags_mask) # CallFilter.flags
        => call.out.v = FALSE

\* The filter "\full\1" was matched against a server with 4 of 8 players,
\* whose other fields no filter field rejects: no match.
C17_Witness ==
    /\ Returned("matches")
    /\ call.base = Attr(Key.full, <<49>>)
    /\ call.extra = <<>>
    /\ call.info.players = 4
    /\ call.more = {}
    /\ call.out.v = FALSE

NorNand ==
    {Attr(Key.nor, <<48>>), Attr(Key.nor, <<49>>), Attr(Key.nand, <<48>>), Attr(Key.nand, <<49>>)}

BitOf(key) ==
    CASE key = Key.dedicated -> DEDICATED
      [] key = Key.proxy -> PROXY
      [] key = Key.secure -> SECURE
      [] key = Key.linux -> LINUX
      [] key = Key.password -> PASSWORD
      [] key = Key.empty -> NOT_EMPTY
      [] key = Key.full -> FULL
      [] key = Key.noplayers -> NOPLAYERS
      [] key = Key.white -> WHITE
      [] key = Key.lan -> LAN
      [] key = Key.bots -> BOTS
      [] key = Key.nor -> NOR
      [] key = Key.nand -> NAND

\* The flag attribute i of the decoded stream is the last one with its key.
IsLast(i) == \A j \in (i + 1)..Len(call.attrs) : call.attrs[j].key # call.attrs[i].key

\* C19: after decoding a filter stream, every flag key named in it has its
\* bit set in flags_mask and its bit in flags equal to the last value
\* supplied for it; a bit never named is 0 in both words, so flags is a
\* subset of flags_mask.
C19_FilterRoundTrip ==
    Returned("from_bytes") =>
        /\ call.out.v.ok
        /\ call.out.v.val.flags_mask = {BitOf(call.attrs[i].key) : i \in DOMAIN call.attrs}
        /\ call.out.v.val.flags =
                {BitOf(call.attrs[i].key) :
                    i \in {j \in DOMAIN call.attrs : IsLast(j) /\ call.attrs[j].bit = 1}}
        /\ call.out.v.val.flags \subseteq call.out.v.val.flags_mask

\* "\map\cf\empty\1\empty\0" has been decoded: NOT_EMPTY is in flags_mask and
\* not in flags.
C19_Witness ==
    /\ Returned("from_bytes")
    /\ call.head # <<>>
    /\ call.attrs = <<[key |-> Key.empty, bit |-> 1], [key |-> Key.empty, bit |-> 0]>>
    /\ call.out.v.val.flags_mask = {NOT_EMPTY}
    /\ call.out.v.val.flags = {}
    /\ call.out.v.val.map = Some(<<99, 102>>)

C21_ParseBytesContract ==
    Returned("parse_bytes") =>
        LET cur == call.cur
            r == call.out.v
        IN  IF cur = <<>> \/ cur[1] = NEWLINE
            THEN ~r.ok /\ r.err = "End" /\ r.cur = cur
            ELSE IF cur[1] = BSLASH
            THEN /\ r.ok
                 /\ \A i \in 1..Len(r.val) : r.val[i] \notin {BSLASH, NEWLINE}
                 /\ cur = <<BSLASH>> \o r.val \o r.cur
                 /\ r.cur = <<>> \/ r.cur[1] \in {BSLASH, NEWLINE}
            ELSE ~r.ok /\ r.err = "InvalidMap"

C21_Witness ==
    /\ Returned("parse_bytes")
    /\ call.cur = <<BSLASH, 97, BSLASH, 0>>
    /\ call.out.v.ok
    /\ call.out.v.val = <<97>>
    /\ call.out.v.cur = <<BSLASH, 0>>

\* The decimal reading of a text: an optional minus and one or more digits.
IsDecimal(t) ==
    LET d == IF t # <<>> /\ t[1] = 45 THEN DropN(t, 1) ELSE t
    IN  d # <<>> /\ \A i \in 1..Len(d) : d[i] \in 48..57

RECURSIVE Magnitude(_)
Magnitude(d) ==
    IF d = <<>> THEN 0 ELSE 10 * Magnitude(TakeN(d, Len(d) - 1)) + (d[Len(d)] - 48)

Decimal(t) == IF t[1] = 45 THEN 0 - Magnitude(DropN(t, 1)) ELSE Magnitude(t)

\* v modulo 2^32 in limbs, for an integer v of fewer than ten digits
Limbs(v) ==
    IF v >= 0 THEN U32(v \div 65536, v % 65536)
    ELSE U32(65535 - ((0 - v - 1) \div 65536), 65535 - ((0 - v - 1) % 65536))

\* The value the claim gives a text read as an N-bit integer ([some |->
\* FALSE] for InvalidInteger), as the N low bits the u32 of the model holds:
\* the bit pattern of v for v in [-2^(N-1), 2^N - 1].
Expected(t, bits) ==
    IF Len(t) <= MaxText /\ 43 \notin {t[i] : i \in 1..Len(t)} THEN
        IF ~IsDecimal(t) THEN None
        ELSE LET v == Decimal(t)
             IN  IF bits = 8
                 THEN (IF v >= -128 /\ v <= 255 THEN Some(U32(0, (v + 256) % 256)) ELSE None)
                 ELSE IF bits = 16
                 THEN (IF v >= -32768 /\ v <= 65535
                       THEN Some(U32(0, (v + 65536) % 65536)) ELSE None)
                 ELSE Some(Limbs(v))
    ELSE IF t = <<43, 53>> THEN Some(U32(0, 5))
    ELSE IF t = <<54, 53, 53, 51, 53>> /\ bits >= 16 THEN Some(U32(0, 65535))
    ELSE IF t = <<54, 53, 53, 51, 54>> /\ bits = 32 THEN Some(U32(1, 0))
    ELSE IF t = <<45, 51, 50, 55, 54, 56>> /\ bits = 16 THEN Some(U32(0, 32768))
    ELSE IF t = <<45, 51, 50, 55, 54, 56>> /\ bits = 32 THEN Some(U32(65535, 32768))
    ELSE IF t = <<45, 51, 50, 55, 54, 57>> /\ bits = 32 THEN Some(U32(65535, 32767))
    ELSE IF t = <<52, 50, 57, 52, 57, 54, 55, 50, 57, 53>> /\ bits = 32
    THEN Some(U32(65535, 65535))
    ELSE IF t = <<45, 50, 49, 52, 55, 52, 56, 51, 54, 52, 56>> /\ bits = 32
    THEN Some(U32(32768, 0))
    ELSE None

\* C22: a decimal text of value v read as an N-bit unsigned integer yields v
\* for v in [0, 2^N - 1] and v + 2^N for v in [-2^(N-1), -1]; read as an
\* N-bit signed integer it yields v in range and v - 2^N for v in
\* [2^(N-1), 2^N - 1]; every other text is InvalidInteger.  Either reading
\* is the same N bits, which is what the comparison is made on; for N = 8
\* the unsigned and the signed value are compared as integers as well.
C22_IntegerWrap ==
    Returned("parse_int") =>
        LET r == call.out.v
            e == Expected(call.text, call.bits)
        IN  /\ r.ok <=> e.some
            /\ ~r.ok => r.err = "InvalidInteger"
            /\ r.ok => r.val = e.v
            /\ r.ok /\ call.bits = 8 /\ IsDecimal(call.text) =>
                 LET v == Decimal(call.text)
                     u == r.val.lo
                 IN  IF call.signed
                     THEN (IF u >= 128 THEN u - 256 ELSE u) = (IF v >= 128 THEN v - 256 ELSE v)
                     ELSE u = (IF v < 0 THEN v + 256 ELSE v)

\* -1 read as u8 is 255, by the fallback to the signed reading
C22_Witness ==
    /\ Returned("parse_int")
    /\ ~call.signed
    /\ call.bits = 8
    /\ call.text = <<45, 49>>
    /\ call.out.v.ok
    /\ call.out.v.val = U32(0, 255)

\* C23: a filter or server-info stream that holds an unknown key followed by
\* a value decodes, without error, to the record of the stream with that
\* pair removed; an unknown key that ends the attributes with no value after
\* it makes the decode fail with End.
C23_UnknownKeys ==
    Returned("unknown") =>
        LET with == call.out.v.with
            without == call.out.v.without
        IN  /\ call.val.some /\ without.ok =>
                /\ with.ok
                /\ IF call.which = "filter"
                   THEN with.val = without.val
                   ELSE /\ with.challenge = without.challenge
                        /\ with.info = without.info
                        /\ with.tail = without.tail
            /\ /\ ~call.val.some
               /\ call.after = <<>> \/ call.after[1] = NEWLINE
               => ~with.ok /\ with.err = "End"

\* \appid\70\unknown\xyz\map\cf gives appid = 70 and map = cf
C23_Witness ==
    /\ Returned("unknown")
    /\ call.which = "filter"
    /\ call.before = Attr(Key.appid, <<55, 48>>)
    /\ call.key = <<117, 110, 107, 110, 111, 119, 110>>
    /\ call.val = Some(<<120, 121, 122>>)
    /\ call.after = Attr(Key.map, <<99, 102>>)
    /\ call.out.v.with.ok
    /\ call.out.v.with.val.appid = Some(U32(0, 70))
    /\ call.out.v.with.val.map = Some(<<99, 102>>)
    /\ call.out.v.with.val = call.out.v.without.val

\* C24 as stated: a tuple is written into a list datagram only if the
\* length of the datagram after that tuple (header and tuples, before the
\* terminator) does not exceed 500 bytes.
C24_TupleWithin500 ==
    call.out.some =>
        \A k \in 1..Len(call.out.v.sent) :
            LET d == call.out.v.sent[k].data
            IN  TupleCount(d) >= 1 => Len(d) - 6 <= 500

\* C24 as the code has it: a tuple is written into a list datagram only if
\* the length of the datagram before that tuple (header and earlier tuples)
\* does not exceed 500 bytes, and the writer begins a new datagram only
\* when the length after a tuple exceeds 500 bytes: a datagram that is
\* followed by another holds more than 500 bytes before its terminator.
C24_TupleFrom500 ==
    call.out.some =>
        \A k \in 1..Len(call.out.v.sent) :
            LET d == call.out.v.sent[k].data
            IN  /\ TupleCount(d) >= 1 => Len(d) - 12 <= 500
                /\ k < Len(call.out.v.sent) => Len(d) - 6 > 500

\* 83 addresses: the first datagram holds them all, 504 bytes before its
\* terminator, and a second one follows.
C24_Witness ==
    /\ call.out.some
    /\ call.n = 83
    /\ call.fail = 0
    /\ Len(call.out.v.sent) = 2
    /\ TupleCount(call.out.v.sent[1].data) = 83
    /\ Len(call.out.v.sent[1].data) - 6 = 504

\* the tuples a datagram of MAX_PACKET_SIZE bytes has room for between the
\* header and the terminator
PerDatagram == (MAX_PACKET_SIZE - 12) \div 6

\* C25: in a response whose sends all succeed, the last datagram carries no
\* tuple (header and six zero bytes, 12 bytes) exactly when no address
\* matches or the addresses fill a whole number of datagrams; no address
\* gives exactly one such datagram; every datagram before the last is full.
C25_FinalEmpty ==
    call.out.some /\ call.out.v.result = "Ok" =>
        LET out == call.out.v.sent
            last == out[Len(out)].data
        IN  /\ Len(out) >= 1
            /\ TupleCount(last) = 0 <=> (call.n = 0 \/ call.n % PerDatagram = 0)
            /\ TupleCount(last) = 0 => Len(last) = 12
            /\ call.n = 0 => Len(out) = 1
            /\ \A k \in 1..(Len(out) - 1) :
                /\ TupleCount(out[k].data) = PerDatagram
                /\ Len(out[k].data) + 6 > MAX_PACKET_SIZE

\* Two full datagrams and then the empty one.
C25_Witness ==
    /\ call.out.some
    /\ call.out.v.result = "Ok"
    /\ call.n = 2 * PerDatagram
    /\ Len(call.out.v.sent) = 3
    /\ call.out.v.sent[3].data = <<255, 255, 255, 255, 102, 10, 0, 0, 0, 0, 0, 0>>

\* C26 as stated: after a Challenge from P whose response is sent, the
\* challenge map holds for P the nonce carried in the response, stamped with
\* the clock reading of add_challenge; the sweep of the same dispatch never
\* removes it.
C26_ChallengeRecorded ==
    [][ChallengeEvictionCalled =>
            challenges'[pkt'.from] = Entry(now, ResponseNonce(sent'[1].data))]_vars

\* The sweep of the step runs and reads the clock challenge_ttl seconds or
\* more after add_challenge did.
SweptExpired ==
    /\ cleanup_challenges = CHALLENGE_CLEANUP_MAX
    /\ ~U32Lt(U32WrappingSub(now', now), timeout.challenge)

\* C26 as the code has it: the entry (clock reading of add_challenge, nonce
\* of the response) is written before the response is sent and before
\* eviction runs.  When the send fails the entry is in the map and eviction
\* has not run; when the response is sent the map holds exactly that entry
\* for P, unless the sweep ran in this dispatch and its own clock reading is
\* challenge_ttl or more after the entry's, in which case the entry is
\* removed as expired.  A sweep that reads the same second never removes it.
C26_RecordedUnlessExpired ==
    [][HandledTag("Challenge") =>
        LET e == challenges'[pkt'.from]
        IN  /\ sent' # <<>> =>
                IF SweptExpired THEN ~e.some
                ELSE e = Entry(now, ResponseNonce(sent'[1].data))
            /\ sent' = <<>> =>
                /\ e.some
                /\ e.time = now
                /\ e.value \in Nonces
                /\ result' = "Io"
                /\ cleanup_challenges' = cleanup_challenges
            /\ now' = now => e.some]_vars

\* The response to a Challenge that carried a client challenge was sent, the
\* sweep ran in the same second, and the map holds the nonce of the response.
C26_Witness ==
    /\ Saw("Challenge")
    /\ decode(pkt.data).server_challenge.some
    /\ sent # <<>>
    /\ cleanup_challenges = 0
    /\ challenges[pkt.from] = Entry(now, ResponseNonce(sent[1].data))

\* C27: no entry of the server map has the WHITE, NOR or NAND bit set, and a
\* query whose filter sets \white\1 is answered with a list that names no
\* server.
C27_NoWhiteServer ==
    /\ \A a \in Peers :
        servers[a].some => servers[a].value.flags \cap {WHITE, NOR, NAND} = {}
    /\ Saw("QueryServers") /\ decode(pkt.data).filter = FilterWhite => Listed(sent) = {}

\* P1 holds a valid EUROPE entry, and the EUROPE query with \white\1 was
\* answered with the empty list.
C27_Witness ==
    /\ Saw("QueryServers")
    /\ pkt.data = QueryDatagram(EUROPE, <<>>, FilterWhite)
    /\ Fresh(P1, now)
    /\ servers[P1].value.region = EUROPE
    /\ result = "Ok"
    /\ Len(sent) = 1
    /\ TupleCount(sent[1].data) = 0

\* C28: a datagram Packet::decode rejects is dropped: both maps and both
\* skip counters stay as they are (a pending challenge of the sender is not
\* consumed), nothing is sent and handle_packet returns Ok.
C28_InvalidDropped ==
    [][Handled /\ (decode(pkt'.data).tag = "InvalidPacket" \/ pkt'.data \in InvalidDatagrams) =>
        /\ UNCHANGED <<challenges, servers, cleanup_challenges, cleanup_servers>>
        /\ sent' = <<>>
        /\ result' = "Ok"]_vars

\* P2 has echoed its pending, valid nonce in a registration whose region is
\* invalid: the challenge is still pending and P2 is not registered.
C28_Witness ==
    /\ pkt = Packet(P2, ServerAddBadRegion)
    /\ decode(pkt.data).tag = "InvalidPacket"
    /\ challenges[P2] = Entry(now, Nonce1)
    /\ ~servers[P2].some
    /\ sent = <<>>
    /\ result = "Ok"

\* C29: a QueryServers whose filter does not decode (a bool that is not 0
\* or 1, an integer that is no number, a string that is not UTF-8, a key
\* with no value, a first byte other than the backslash) is dropped: no
\* list datagram is sent, not even an empty one, the state is unchanged and
\* handle_packet returns Ok.
C29_BadFilterDropped ==
    [][/\ HandledTag("QueryServers")
       /\ \/ decode(pkt'.data).filter \in BadFilters
          \/ ~Filter_from_bytes(decode(pkt'.data).filter).ok
       => /\ sent' = <<>>
          /\ result' = "Ok"
          /\ UNCHANGED <<challenges, servers, cleanup_challenges, cleanup_servers, now>>]_vars

\* With the valid EUROPE entry of P1 in the map, a EUROPE query with the
\* filter "\map" was handled and nothing was sent.
C29_Witness ==
    /\ Saw("QueryServers")
    /\ pkt.data = QueryDatagram(EUROPE, <<>>, <<92, 109, 97, 112>>)
    /\ Fresh(P1, now)
    /\ servers[P1].value.region = EUROPE
    /\ sent = <<>>
    /\ result = "Ok"

\* The positions of the NUL bytes after the region byte of body.
NulsOf(body) == {i \in 2..Len(body) : body[i] = 0}

\* The bytes after the region byte are two strings without NUL, each
\* followed by a NUL, and nothing else.
TwoStrings(body) ==
    /\ Cardinality(NulsOf(body)) = 2
    /\ Len(body) \in NulsOf(body)

\* C30: a datagram that begins with '1' decodes to QueryServers(region,
\* filter) if and only if its second byte is a region value (0..7 or 0xff)
\* and the rest is exactly two NUL-terminated strings; the filter is the
\* second string and the first string does not enter the result; every
\* other datagram that begins with '1' is InvalidPacket.
C30_QueryDecode ==
    Returned("decode") =>
        LET body == call.body
            r == call.out.v
        IN  IF Len(body) >= 1 /\ body[1] \in (0..7) \cup {255} /\ TwoStrings(body)
            THEN LET first == CHOOSE i \in NulsOf(body) : i # Len(body)
                 IN  r = [tag |-> "QueryServers", region |-> body[1],
                          filter |-> SubSeq(body, first + 1, Len(body) - 1)]
            ELSE r = [tag |-> "InvalidPacket"]

\* "1" region 3 "a" NUL "a" NUL is the EUROPE query with the filter "a"
C30_Witness ==
    /\ Returned("decode")
    /\ call.body = <<3, 97, 0, 97, 0>>
    /\ call.out.v = [tag |-> "QueryServers", region |-> 3, filter |-> <<97>>]

LastBit(key) ==
    LET at == {i \in 1..Len(call.attrs) : call.attrs[i].key = key}
    IN  IF at = {} THEN None
        ELSE Some(call.attrs[CHOOSE i \in at : \A j \in at : j <= i].bit)

OrElse(opt, default) == IF opt.some THEN opt.v ELSE default

\* C32: ServerInfo::from_bytes reads key/value pairs up to the first End met
\* where a key is read; the challenge is returned only if a challenge key
\* was present; a later attribute with the same key overwrites an earlier
\* one; fields that no attribute names keep their defaults; the tail is the
\* rest of the input with exactly one leading \n removed if there is one.
C32_ServerInfoFromBytes ==
    Returned("info") =>
        LET r == call.out.v
            e == call.ending
        IN  /\ r.ok
            /\ r.challenge = (IF LastBit(Key.challenge).some
                              THEN Some(U32(0, LastBit(Key.challenge).v)) ELSE None)
            /\ r.info =
                [ServerInfoDefault EXCEPT
                    !.players = OrElse(LastBit(Key.players), 0),
                    !.map = IF LastBit(Key.map).some
                            THEN <<48 + LastBit(Key.map).v>> ELSE <<>>,
                    !.flags = IF OrElse(LastBit(Key.bots), 0) = 1 THEN {"BOTS"} ELSE {},
                    !.region = OrElse(LastBit(Key.region), REST_OF_WORLD)]
            /\ r.tail = (IF e # <<>> /\ e[1] = NEWLINE THEN SubSeq(e, 2, Len(e)) ELSE e)

\* "\challenge\0\challenge\1" and then "\n\map\1": the second challenge is
\* the one returned, the map after the newline is not read and is the tail.
C32_Witness ==
    /\ Returned("info")
    /\ call.attrs = <<[key |-> Key.challenge, bit |-> 0], [key |-> Key.challenge, bit |-> 1]>>
    /\ call.ending = <<NEWLINE>> \o Attr(Key.map, <<49>>)
    /\ call.out.v.ok
    /\ call.out.v.challenge = Some(U32(0, 1))
    /\ call.out.v.info = ServerInfoDefault
    /\ call.out.v.tail = Attr(Key.map, <<49>>)

\* C33: the texts 0..7 decode to the regions of those values, -1 and 255 to
\* REST_OF_WORLD, every other integer that u8 or i8 represents is
\* InvalidRegion, and a text that is no such integer is InvalidInteger.
C33_RegionText ==
    Returned("parse_region") =>
        LET t == call.text
            r == call.out.v
        IN  IF IsDecimal(t) /\ Decimal(t) >= -128 /\ Decimal(t) <= 255
            THEN IF Decimal(t) \in 0..7 THEN r.ok /\ r.val = Decimal(t)
                 ELSE IF Decimal(t) \in {-1, 255} THEN r.ok /\ r.val = REST_OF_WORLD
                 ELSE ~r.ok /\ r.err = "InvalidRegion"
            ELSE ~r.ok /\ r.err = "InvalidInteger"

\* the text -1 is REST_OF_WORLD
C33_Witness ==
    /\ Returned("parse_region")
    /\ call.text = <<45, 49>>
    /\ call.out.v.ok
    /\ call.out.v.val = REST_OF_WORLD

\* The echo of p is not the nonce pending for peer P.
WrongGuess(P, p) ==
    /\ p.challenge.some
    /\ challenges[P].some
    /\ p.challenge.v # challenges[P].value

\* C34: a ServerAdd from P that echoes a nonce other than the pending one
\* leaves P's challenge entry, nonce and timestamp, and everything else the
\* server holds as they were, so the pending nonce is held as before; and a
\* ServerAdd from P echoing the pending nonce while it is valid is accepted,
\* whatever came before it: it consumes the challenge and writes P's server
\* entry (which only the sweep of the same dispatch can remove again).
C34_WrongGuessKept ==
    [][/\ (HandledTag("ServerAdd") /\ WrongGuess(pkt'.from, decode(pkt'.data)))
            => /\ challenges' = challenges
               /\ servers' = servers
               /\ cleanup_challenges' = cleanup_challenges
               /\ cleanup_servers' = cleanup_servers
               /\ now' = now
               /\ result' = "Ok"
       /\ (HandledTag("ServerAdd") /\ EchoHeld(pkt'.from, decode(pkt'.data).challenge))
            => /\ ~challenges'[pkt'.from].some
               /\ \/ Registered(pkt'.from, decode(pkt'.data).info)
                  \/ cleanup_servers = SERVER_CLEANUP_MAX /\ ~servers'[pkt'.from].some]_vars

\* A ServerAdd echoing Nonce2 has been handled while Nonce1 is pending and
\* valid for its sender: the entry is there with its nonce, and the sender
\* is not registered.
C34_Witness ==
    /\ Saw("ServerAdd")
    /\ decode(pkt.data).challenge = Some(Nonce2)
    /\ challenges[pkt.from].some
    /\ challenges[pkt.from].value = Nonce1
    /\ is_valid(challenges[pkt.from], now, timeout.challenge)
    /\ result = "Ok"
    /\ ~servers[pkt.from].some

\* The map of the reference model that evicts at once: the entries of map
\* whose age at the clock reading t is below ttl.
Eager(map, t, ttl) ==
    [a \in DOMAIN map |-> IF map[a].some /\ is_valid(map[a], t, ttl) THEN map[a] ELSE None]

RefChallenges == Eager(challenges, now, timeout.challenge)

RefServers == Eager(servers, now, timeout.server)

\* The reference model accepts the registration p of peer P.
RefAccepts(P, p) ==
    /\ p.challenge.some
    /\ RefChallenges[P].some
    /\ RefChallenges[P].value = p.challenge.v

\* The nonce the Challenge dispatch of the step drew.
IssuedNonce ==
    IF sent' # <<>> THEN ResponseNonce(sent'[1].data) ELSE challenges'[pkt'.from].value

\* The maps the reference model's handler of the step's datagram makes of
\* RefChallenges and RefServers; t1 is the clock reading of add_server.
RefChallengesNext ==
    IF HandledTag("Challenge")
    THEN [RefChallenges EXCEPT ![pkt'.from] = Entry(now, IssuedNonce)]
    ELSE IF HandledTag("ServerAdd") /\ RefAccepts(pkt'.from, decode(pkt'.data))
    THEN [RefChallenges EXCEPT ![pkt'.from] = None]
    ELSE RefChallenges

RefServersNext(t1) ==
    IF HandledTag("ServerAdd") /\ RefAccepts(pkt'.from, decode(pkt'.data))
    THEN [RefServers EXCEPT ![pkt'.from] = Entry(t1, Server_new(decode(pkt'.data).info))]
    ELSE RefServers

\* The addresses the reference model lists for the query p.
RefListed(p) ==
    {a \in Peers :
        /\ RefServers[a].some
        /\ Entry_matches(RefServers[a], a, p.region, filter_from_bytes(p.filter).val)}

\* C35: the server simulates the reference model that removes every entry
\* at the instant its age reaches its TTL.  At every step the entries of the
\* server's maps that are valid at the clock reading are the reference
\* model's maps after its own handling of the same datagram and the same
\* clock readings; a ServerAdd consumes the challenge if and only if the
\* reference model accepts it; and a query answered in full carries the
\* addresses the reference model lists.
C35_LazyUnobservable ==
    [][/\ Eager(challenges', now', timeout.challenge)
            = Eager(RefChallengesNext, now', timeout.challenge)
       /\ \E d1, d2 \in 0..MaxSkew :
            /\ now' = Later(Later(now, d1), d2)
            /\ Eager(servers', now', timeout.server)
                = Eager(RefServersNext(Later(now, d1)), now', timeout.server)
       /\ HandledTag("ServerAdd") =>
            ((challenges[pkt'.from].some /\ ~challenges'[pkt'.from].some)
                <=> RefAccepts(pkt'.from, decode(pkt'.data)))
       /\ (/\ HandledTag("QueryServers")
           /\ filter_from_bytes(decode(pkt'.data).filter).ok
           /\ result' = "Ok")
            => Listed(sent') = RefListed(decode(pkt'.data))]_vars

\* The entry of address Q in a map is after the step what it was before, or
\* it was expired at the clock reading of the step's sweep and is gone.
KeptOrSwept(map, map2, Q, due, ttl) ==
    \/ map2[Q] = map[Q]
    \/ /\ due
       /\ map[Q].some
       /\ ~map2[Q].some
       /\ ~is_valid(map[Q], now', ttl)

\* C36: a Challenge or ServerAdd from P leaves the challenge entry and the
\* server entry of every other address Q as they are, except that the sweep
\* of the dispatch removes Q's entry if it has expired; and a ServerAdd from
\* P for which the map holds no challenge under P itself changes nothing,
\* whatever nonces other addresses have pending.
C36_PeerIsolation ==
    [][(HandledTag("Challenge") \/ HandledTag("ServerAdd")) =>
        LET P == pkt'.from
            challenge_sweep == HandledTag("Challenge") /\ sent' # <<>>
                                /\ cleanup_challenges = CHALLENGE_CLEANUP_MAX
            server_sweep == HandledTag("ServerAdd") /\ challenges'[P] # challenges[P]
                                /\ cleanup_servers = SERVER_CLEANUP_MAX
        IN  /\ \A Q \in Peers \ {P} :
                /\ KeptOrSwept(challenges, challenges', Q, challenge_sweep, timeout.challenge)
                /\ KeptOrSwept(servers, servers', Q, server_sweep, timeout.server)
            /\ (HandledTag("ServerAdd") /\ ~challenges[P].some)
                => challenges' = challenges /\ servers' = servers]_vars

\* P1 has sent a ServerAdd echoing the nonce that is pending and valid for
\* P2 while nothing was pending for P1: P2's challenge is still there, and
\* P1's server entry is the one of the first second.
C36_Witness ==
    /\ Saw("ServerAdd")
    /\ pkt.from = P1
    /\ ~challenges[P1].some
    /\ challenges[P2].some
    /\ decode(pkt.data).challenge = Some(challenges[P2].value)
    /\ is_valid(challenges[P2], now, timeout.challenge)
    /\ servers[P1].some
    /\ servers[P1].time = U32Zero
    /\ now # U32Zero

\* The ServerAdd p of peer P is dropped: it has no echo, or no challenge is
\* pending for P, or the pending one has expired, or its nonce is another.
Dropped(P, p) ==
    \/ ~p.challenge.some
    \/ ~challenges[P].some
    \/ ~is_valid(challenges[P], now, timeout.challenge)
    \/ p.challenge.v # challenges[P].value

\* C37: a dropped ServerAdd leaves cleanup_servers and the server map as
\* they are; every step other than an accepted ServerAdd leaves them so,
\* with every expired server entry still in the map; and every step other
\* than a Challenge whose response was sent leaves cleanup_challenges as it
\* is and removes no challenge but the one an accepted ServerAdd consumes.
C37_EvictionOnlyOnAccept ==
    [][/\ (HandledTag("ServerAdd") /\ Dropped(pkt'.from, decode(pkt'.data)))
            => cleanup_servers' = cleanup_servers /\ servers' = servers
       /\ ~(HandledTag("ServerAdd") /\ ~Dropped(pkt'.from, decode(pkt'.data)))
            => cleanup_servers' = cleanup_servers /\ servers' = servers
       /\ ~(HandledTag("Challenge") /\ sent' # <<>>)
            => /\ cleanup_challenges' = cleanup_challenges
               /\ \A a \in Peers :
                    challenges'[a] # challenges[a] =>
                        \/ HandledTag("Challenge") /\ pkt'.from = a
                        \/ /\ HandledTag("ServerAdd")
                           /\ pkt'.from = a
                           /\ ~Dropped(a, decode(pkt'.data))]_vars

\* A ServerAdd echoing the nonce of an expired challenge has been dropped
\* while the skip counter of the server map stood at its threshold: the
\* counter is still there and the expired entry of the other peer is still
\* in the map.
C37_Witness ==
    /\ Saw("ServerAdd")
    /\ decode(pkt.data).challenge.some
    /\ challenges[pkt.from].some
    /\ decode(pkt.data).challenge.v = challenges[pkt.from].value
    /\ ~is_valid(challenges[pkt.from], now, timeout.challenge)
    /\ cleanup_servers = SERVER_CLEANUP_MAX
    /\ \E a \in Peers \ {pkt.from} : StaleServer(a)

\* Every pass of the outer loop over what is left of iter, and every pass
\* after it, either finds the iterator exhausted and sets done or leaves a
\* shorter rest having written a tuple.
RECURSIVE PassesProgress(_)
PassesProgress(iter) ==
    LET f == FillList(SERVER_LIST_HEADER, iter) IN
    IF f.done THEN f.iter = <<>>
    ELSE /\ Len(f.iter) < Len(iter)
         /\ Len(f.buf) > Len(SERVER_LIST_HEADER)
         /\ PassesProgress(f.iter)

\* C38: send_server_list returns for every number of addresses, after at
\* most one pass per address and one more; every pass consumes an address
\* or ends the loop; send_to is called at least once (a datagram is sent, or
\* the call returns the error of the send); and every datagram sent that is
\* not the last of the list carries at least one address.
C38_ListTerminates ==
    call.out.some =>
        LET r == call.out.v
            all == ListDatagrams(ListIter(call.n)).dgrams
        IN  /\ PassesProgress(ListIter(call.n))
            /\ Len(all) >= 1
            /\ Len(all) <= call.n + 1
            /\ Len(r.sent) >= 1 \/ r.result = "Io"
            /\ r.result = "Io" <=> call.fail \in 1..Len(all)
            /\ \A k \in 1..Len(r.sent) :
                k < Len(all) => TupleCount(r.sent[k].data) >= 1

\* The call with exactly the addresses that fill one datagram has made two
\* passes: the first datagram carries them all, and the last one, sent after
\* the pass that found the iterator exhausted, carries none.
C38_Witness ==
    /\ call.out.some
    /\ call.n = PerDatagram
    /\ call.fail = 0
    /\ call.out.v.result = "Ok"
    /\ Len(call.out.v.sent) = 2
    /\ TupleCount(call.out.v.sent[1].data) = PerDatagram
    /\ TupleCount(call.out.v.sent[2].data) = 0

\* C39: a gameaddr attribute whose value is text but neither ip:port nor a
\* bare IPv4 address does not fail the decoding and assigns nothing: the
\* filter decoded is the one decoded from the stream without the attribute.
\* With no other gameaddr attribute, gameaddr is unset and the filter
\* matches a server at one address exactly when it matches it at another.
C39_GameAddrUnparsed ==
    Returned("from_bytes") =>
        \A pre \in GameAddrHeads, v \in GameAddrTexts :
            call.head = pre \o Attr(Key.gameaddr, v) =>
                LET f == call.out.v
                    without == Filter_from_bytes(Stream(pre, call.attrs))
                    server == Server_new(ServerInfoDefault)
                IN  /\ f.ok
                    /\ without.ok
                    /\ f.val = without.val
                    /\ pre = <<>> =>
                        /\ f.val.gameaddr = None
                        /\ matches(f.val, P1, server) = matches(f.val, P2, server)
                    /\ pre # <<>> => f.val.gameaddr = Some([ip |-> P1.ip, port |-> 0])

\* "\gameaddr\10.0.0.1:65536\dedicated\0" is decoded: no address, and the
\* flag filter of the second attribute.
C39_Witness ==
    /\ Returned("from_bytes")
    /\ call.head = Attr(Key.gameaddr, <<49, 48, 46, 48, 46, 48, 46, 49, 58, 54, 53, 53, 51, 54>>)
    /\ call.attrs = <<[key |-> Key.dedicated, bit |-> 0]>>
    /\ call.out.v.ok
    /\ call.out.v.val.gameaddr = None
    /\ call.out.v.val.flags_mask = {DEDICATED}
    /\ call.out.v.val.flags = {}
    /\ matches(call.out.v.val, P2, Server_new(ServerInfoDefault))

====
